---------------------------- MODULE Spec2Model ----------------------------
(***************************************************************************)
(* FlashChat room/session coordination core.                               *)
(*                                                                         *)
(* The model follows server/socketHandler.js (the socket.io event          *)
(* handlers) and server/utils/userManagerRedis.js (the user/room manager   *)
(* with its Redis store and its in-memory fallback).  One action is one    *)
(* handler run to completion.  Strings are sequences of one-character      *)
(* strings so that trim / toLowerCase / toUpperCase / replace are computed *)
(* the way the code computes them.                                         *)
(***************************************************************************)
EXTENDS Integers, Sequences, FiniteSets, Bags, TLC

(***************************************************************************)
(* Bounds of the model.                                                    *)
(***************************************************************************)
\* socket ids handed out by socket.io; an id is used for one connection only
MaxConn == 3
\* admin tokens that addUser / transferAdmin may generate
MaxTokens == 2
\* join requests that may wait in one room's pending list at a time
MaxPending == 2
\* clients that stay connected in the main specification
MaxClients == 2
\* cleanup timers of one room that run without their handle in the Map
MaxLost == 1
\* messages sent while calls of the message service interleave
MaxSent == 2
\* editMessage and deleteMessage events of one socket
MaxReplaces == 1
\* RATE_LIMITS (socketHandler.js:154-165), the times and the message count
\* scaled down: join 3 per 60 s, blocked 60 s; message 10 per 10 s, blocked 30 s
JOIN_MAX_REQUESTS == 3
JOIN_WINDOW == 2
JOIN_BLOCK == 2
MESSAGE_MAX_REQUESTS == 2
MESSAGE_WINDOW == 1
MESSAGE_BLOCK == 3
\* the clock stops here
MaxNow == 4
\* MAX_MESSAGES_PER_ROOM (100 in messageService.js:15), scaled down
MAX_MESSAGES_PER_ROOM == 2
\* ROOM_CAPACITY.DEFAULT (50 in userManagerRedis.js:22), scaled down
DEFAULT_CAPACITY == 2
\* ROOM_CAPACITY.LOCATION (100 in userManagerRedis.js:23), scaled down
LOCATION_CAPACITY == 3

\* username length limits of the join handler (socketHandler.js:283, 288)
MAX_USERNAME_LEN == 20
MIN_USERNAME_LEN == 2

Conn == 1..MaxConn
Clients == 1..MaxClients
NoConn == 0
NoToken == 0
Tokens == 1..MaxTokens
None == [none |-> TRUE]

(***************************************************************************)
(* Strings.                                                                *)
(***************************************************************************)
S_al == <<"a", "l">>
S_Al_sp == <<" ", "A", "l">>
S_bo == <<"b", "o">>
S_cy == <<"c", "y">>
S_bang == <<"!">>
S_r1 == <<"r", "1">>
S_R1 == <<"R", "1">>
S_LOC1 == <<"L", "O", "C", "_", "1">>
LOC_PREFIX == <<"L", "O", "C", "_">>

\* usernames and room ids a client may send with join
RawNames == {S_al, S_Al_sp, S_bo, S_cy, S_bang, <<>>}
RawRooms == {S_r1, S_R1, S_LOC1}

LowerLetters == {"a", "b", "c", "l", "o", "r", "y"}
UpperLetters == {"A", "B", "C", "L", "O", "R", "Y"}
Digits == {"0", "1", "2"}

toLowerChar(ch) ==
  CASE ch = "A" -> "a" [] ch = "B" -> "b" [] ch = "C" -> "c" [] ch = "L" -> "l"
    [] ch = "O" -> "o" [] ch = "R" -> "r" [] ch = "Y" -> "y" [] OTHER -> ch

toUpperChar(ch) ==
  CASE ch = "a" -> "A" [] ch = "b" -> "B" [] ch = "c" -> "C" [] ch = "l" -> "L"
    [] ch = "o" -> "O" [] ch = "r" -> "R" [] ch = "y" -> "Y" [] OTHER -> ch

toLowerCase(s) == [i \in 1..Len(s) |-> toLowerChar(s[i])]
toUpperCase(s) == [i \in 1..Len(s) |-> toUpperChar(s[i])]

RECURSIVE trimStart(_)
trimStart(s) == IF s # <<>> /\ Head(s) = " " THEN trimStart(Tail(s)) ELSE s

RECURSIVE trimEnd(_)
trimEnd(s) ==
  IF s # <<>> /\ s[Len(s)] = " " THEN trimEnd(SubSeq(s, 1, Len(s) - 1)) ELSE s

trim(s) == trimEnd(trimStart(s))

\* s.replace(/\s+/g, ' ')
RECURSIVE collapseSpaces(_)
collapseSpaces(s) ==
  IF Len(s) < 2 THEN s
  ELSE IF s[1] = " " /\ s[2] = " " THEN collapseSpaces(Tail(s))
  ELSE <<s[1]>> \o collapseSpaces(Tail(s))

startsWith(s, p) == Len(s) >= Len(p) /\ SubSeq(s, 1, Len(p)) = p

UsernameChars == LowerLetters \cup UpperLetters \cup Digits \cup {" ", "_", "-"}
RoomIdChars == UpperLetters \cup Digits \cup {".", "_", "-"}

sanitizeUsername(username) ==
  trim(collapseSpaces(SelectSeq(trim(username), LAMBDA ch : ch \in UsernameChars)))

sanitizeRoomId(roomId) ==
  SelectSeq(toUpperCase(trim(roomId)), LAMBDA ch : ch \in RoomIdChars)

\* room = room.trim().toUpperCase(), the manager's own normalisation
normRoom(room) == toUpperCase(trim(room))
normName(username) == toLowerCase(trim(username))

Rooms == {sanitizeRoomId(r) : r \in RawRooms}
Names == {normName(sanitizeUsername(n)) : n \in RawNames} \ {<<>>}


(***************************************************************************)
(* State.                                                                  *)
(***************************************************************************)
VARIABLES
  sock,               \* socket id -> "open" | "closed" (io.sockets.sockets)
  redisConnected,     \* isRedisConnected()
  rUser,              \* Redis  user:<socketId>       hash, or None
  rRoomUsers,         \* Redis  room:<roomId>:users   set of socket ids
  rMeta,              \* Redis  room:<roomId>:meta    hash
  rPending,           \* Redis  room:<roomId>:pending set of JSON entries (a bag)
  rMessages,          \* Redis  room:<roomId>:messages list
  inMemoryUsers,      \* the fallback's array of {id, username, room}
  inMemoryRooms,      \* the fallback's Map roomId -> room data, or None
  roomCleanupTimers,  \* the Map room -> timer: "none" | "armed" | "fired"
  recentlyRemovedUsers, \* socket ids marked by leaveRoom / disconnect
  removalTimers,      \* socket ids whose 5 s timer to drop the mark is pending
  nextToken,          \* the next admin token randomUUID() will return
  inFlight            \* the calls that have reached an await and not returned,
                      \* and the rate limiter's Map with its clock

vars == <<sock, redisConnected, rUser, rRoomUsers, rMeta, rPending, rMessages,
          inMemoryUsers, inMemoryRooms, roomCleanupTimers, recentlyRemovedUsers,
          removalTimers, nextToken, inFlight>>

\* no call is waiting at an await: leave[c] are the handlers (leaveRoom,
\* disconnect) of socket c that wait for removeUser, cleanup[r] is where the
\* cleanup timer's callback of room r has got to, add[c] is the addUser call
\* of socket c's join that has passed its checks, lost[r] counts the cleanup
\* timers of room r that are still running while roomCleanupTimers no longer
\* holds their handle, msg[c] is the messageService call of socket c (with the
\* ids of the messages it has pushed and of those it has deleted, and the
\* number of its edits and deletions)
NoMessageOp == [op |-> "idle", sent |-> {}, removed |-> {}, calls |-> 0]
\* a socket without an entry in rateLimitStore (socketHandler.js:170)
ActionTypes == {"message", "join"}
NoLimits == [actionType \in ActionTypes |-> None]
\* limits[c] is the entry of socket c in rateLimitStore, now is Date.now()
NoInFlight ==
  [leave |-> [c \in Conn |-> {}],
   cleanup |-> [r \in Rooms |-> "none"],
   add |-> [c \in Conn |-> None],
   lost |-> [r \in Rooms |-> 0],
   msg |-> [c \in Conn |-> NoMessageOp],
   limits |-> [c \in Conn |-> NoLimits],
   now |-> 0]

\* an absent room:<roomId>:meta hash
NoMeta == [createdAt |-> FALSE, adminToken |-> NoToken, adminSocketId |-> NoConn,
           requireAdmin |-> FALSE]

\* the manager's stores, threaded through the steps of one handler
World == [rUser |-> rUser, rRoomUsers |-> rRoomUsers, rMeta |-> rMeta,
          rPending |-> rPending, rMessages |-> rMessages,
          inMemoryUsers |-> inMemoryUsers,
          inMemoryRooms |-> inMemoryRooms, roomCleanupTimers |-> roomCleanupTimers]

SetWorld(w) ==
  /\ rUser' = w.rUser
  /\ rRoomUsers' = w.rRoomUsers
  /\ rMeta' = w.rMeta
  /\ rPending' = w.rPending
  /\ rMessages' = w.rMessages
  /\ inMemoryUsers' = w.inMemoryUsers
  /\ inMemoryRooms' = w.inMemoryRooms
  /\ roomCleanupTimers' = w.roomCleanupTimers

(***************************************************************************)
(* Error messages and replies.                                             *)
(***************************************************************************)
E_REQUIRED == "Username and room are required!"
E_FULL == "Room is full!"
E_TAKEN == "Username is already taken in this room!"
E_RATE == "Rate limit exceeded"
E_JOIN_REQUIRED == "Username and room are required"
E_FORMAT == "Invalid username or room ID format"
E_TOO_LONG == "Username too long (max 20 characters)"
E_TOO_SHORT == "Username too short (min 2 characters)"
E_NOT_IN_ROOM == "You are not in a room"
E_ONLY_ADMIN_APPROVE == "Only the admin can approve join requests"
E_ONLY_ADMIN_REJECT == "Only the admin can reject join requests"
E_ONLY_ADMIN_KICK == "Only the admin can kick users"
E_PENDING_NOT_FOUND == "Pending user not found"
E_KICK_SELF == "You cannot kick yourself"
E_USER_NOT_FOUND == "User not found in this room"
DEFAULT_REJECT_REASON == "Your join request was denied by the room admin"
KICK_REASON == "You have been removed from the room by the admin"

Reply(op, c, result, token) ==
  [op |-> op, conn |-> c, result |-> result, adminToken |-> token]

\* an event emitted to one socket: io.to(id).emit(ev, ...) / socket.emit(ev, ...)
Event(to, ev, about, reason, isAdmin, token) ==
  [to |-> to, ev |-> ev, about |-> about, reason |-> reason, isAdmin |-> isAdmin,
   adminToken |-> token]

(***************************************************************************)
(* userManagerRedis.js: the in-memory fallback.                            *)
(***************************************************************************)
NewRoomData == [userCount |-> 0, adminToken |-> NoToken, adminSocketId |-> NoConn,
                requireAdmin |-> FALSE, pending |-> <<>>]

IndexOfUser(users, id) ==
  IF \E i \in 1..Len(users) : users[i].id = id
    THEN CHOOSE i \in 1..Len(users) :
           users[i].id = id /\ \A j \in 1..(i - 1) : users[j].id # id
    ELSE 0

RemoveAt(s, i) == SubSeq(s, 1, i - 1) \o SubSeq(s, i + 1, Len(s))

getUserInMemory(w, id) ==
  LET i == IndexOfUser(w.inMemoryUsers, id)
  IN  IF i = 0 THEN None ELSE w.inMemoryUsers[i]

getUsersInRoomInMemory(w, room) ==
  SelectSeq(w.inMemoryUsers, LAMBDA u : u.room = room)

isRoomActiveInMemory(w, room) ==
  w.inMemoryRooms[room] # None /\ w.inMemoryRooms[room].userCount > 0

\* result of addUser: the stores, the error ("" when none), the user's isAdmin
\* flag, the token handed back and whether a fresh token was generated
AddResult(w, error, isAdmin, token, generated) ==
  [w |-> w, error |-> error, isAdmin |-> isAdmin, adminToken |-> token,
   generated |-> generated]

\* a fallback addUser that takes requireAdmin from every joiner
addUserInMemory_resetsFlag(w, id, username0, room0, adminToken, requireAdmin, fresh) ==
  LET username == normName(username0)
      room == normRoom(room0)
      users == w.inMemoryUsers
      existingUser == \E i \in 1..Len(users) :
                        users[i].room = room /\ users[i].username = username
      w1 == [w EXCEPT !.inMemoryUsers =
                Append(users, [id |-> id, username |-> username, room |-> room])]
      roomData == IF w.inMemoryRooms[room] = None THEN NewRoomData
                  ELSE w.inMemoryRooms[room]
  IN  IF existingUser THEN AddResult(w, E_TAKEN, FALSE, NoToken, FALSE)
      ELSE AddResult(
             [w1 EXCEPT !.inMemoryRooms[room] =
                [roomData EXCEPT !.userCount = @ + 1, !.requireAdmin = requireAdmin]],
             "", FALSE, NoToken, FALSE)

\* a fallback addUser that stores the user before it looks for the username
addUserInMemory_pushesFirst(w, id, username0, room0, adminToken, requireAdmin, fresh) ==
  LET username == normName(username0)
      room == normRoom(room0)
      users == w.inMemoryUsers
      existingUser == \E i \in 1..Len(users) :
                        users[i].room = room /\ users[i].username = username
      w1 == [w EXCEPT !.inMemoryUsers =
                Append(users, [id |-> id, username |-> username, room |-> room])]
      roomData == w.inMemoryRooms[room]
  IN  IF existingUser THEN AddResult(w1, E_TAKEN, FALSE, NoToken, FALSE)
      ELSE IF roomData = None
        THEN AddResult(
               [w1 EXCEPT !.inMemoryRooms[room] = [NewRoomData EXCEPT !.userCount = 1]],
               "", FALSE, NoToken, FALSE)
        ELSE AddResult(
               [w1 EXCEPT !.inMemoryRooms[room] = [roomData EXCEPT !.userCount = @ + 1]],
               "", FALSE, NoToken, FALSE)

addUserInMemory(w, id, username0, room0, adminToken, requireAdmin, fresh) ==
  LET username == normName(username0)
      room == normRoom(room0)
      users == w.inMemoryUsers
      existingUser == \E i \in 1..Len(users) :
                        users[i].room = room /\ users[i].username = username
      w1 == [w EXCEPT !.inMemoryUsers =
                Append(users, [id |-> id, username |-> username, room |-> room])]
      isLocationRoom == startsWith(room, LOC_PREFIX)
      needsAdmin == requireAdmin
      roomData == w.inMemoryRooms[room]
  IN  IF existingUser THEN AddResult(w, E_TAKEN, FALSE, NoToken, FALSE)
      ELSE IF roomData = None
        THEN IF isLocationRoom \/ ~needsAdmin
          THEN AddResult(
                 [w1 EXCEPT !.inMemoryRooms[room] = [NewRoomData EXCEPT !.userCount = 1]],
                 "", FALSE, NoToken, FALSE)
          ELSE AddResult(
                 [w1 EXCEPT !.inMemoryRooms[room] =
                    [NewRoomData EXCEPT !.userCount = 1, !.adminToken = fresh,
                                        !.adminSocketId = id, !.requireAdmin = TRUE]],
                 "", TRUE, fresh, TRUE)
        ELSE IF ~isLocationRoom /\ adminToken # NoToken /\ roomData.adminToken = adminToken
          THEN AddResult(
                 [w1 EXCEPT !.inMemoryRooms[room] =
                    [roomData EXCEPT !.userCount = @ + 1, !.adminSocketId = id]],
                 "", TRUE, adminToken, FALSE)
          ELSE AddResult(
                 [w1 EXCEPT !.inMemoryRooms[room] = [roomData EXCEPT !.userCount = @ + 1]],
                 "", FALSE, NoToken, FALSE)

\* result of removeUser: the stores and the removed user, or None
removeUserInMemory(w, id) ==
  LET index == IndexOfUser(w.inMemoryUsers, id)
      user == w.inMemoryUsers[index]
      w1 == [w EXCEPT !.inMemoryUsers = RemoveAt(@, index)]
  IN  IF index = 0 THEN [w |-> w, user |-> None]
      ELSE IF w.inMemoryRooms[user.room] # None
        THEN [w |-> [w1 EXCEPT !.inMemoryRooms[user.room].userCount = @ - 1],
              user |-> user]
        ELSE [w |-> w1, user |-> user]

(***************************************************************************)
(* userManagerRedis.js: the Redis-backed operations.                       *)
(***************************************************************************)
\* the ids of room:<room>:users whose user:<id> hash still exists
ValidIds(w, room) == {id \in w.rRoomUsers[room] : w.rUser[id] # None}

\* getUsersInRoom: the users of a room, as a set of {id, username, room}
\* (the store path) or as the array the fallback filters
RedisUsersInRoom(w, room) ==
  {[id |-> id, username |-> w.rUser[id].username, room |-> w.rUser[id].room] :
     id \in ValidIds(w, room)}

\* getUsersInRoom also removes the stale references it meets
CleanStale(w, room) ==
  IF redisConnected THEN [w EXCEPT !.rRoomUsers[room] = ValidIds(w, room)] ELSE w

getRoomCount(w, room) ==
  IF redisConnected THEN Cardinality(ValidIds(w, room))
  ELSE Len(getUsersInRoomInMemory(w, room))

Capacity(room) ==
  IF startsWith(room, LOC_PREFIX) THEN LOCATION_CAPACITY ELSE DEFAULT_CAPACITY

checkRoomCapacity(w, room) ==
  [isFull |-> getRoomCount(w, room) >= Capacity(room),
   current |-> getRoomCount(w, room),
   limit |-> Capacity(room)]

getUser(w, id) ==
  IF redisConnected /\ w.rUser[id] # None
    THEN [id |-> id, username |-> w.rUser[id].username, room |-> w.rUser[id].room]
    ELSE getUserInMemory(w, id)

\* getUsersInRoom: the users listed for a room, as a set of {id, username, room}
getUsersInRoom(w, room0) ==
  LET room == normRoom(room0)
      users == getUsersInRoomInMemory(w, room)
  IN  IF redisConnected THEN RedisUsersInRoom(w, room)
      ELSE {users[i] : i \in 1..Len(users)}

\* clearTimeout and roomCleanupTimers.delete(room)
cancelTimer(w, room) == [w EXCEPT !.roomCleanupTimers[room] = "none"]

\* the store's addUser without its test for LOC_ rooms
addUserRedisWrites_locAdmin(w, id, username, room, adminToken, requireAdmin, fresh) ==
  LET w1 == [w EXCEPT !.rUser[id] = [username |-> username, room |-> room],
                      !.rRoomUsers[room] = @ \cup {id}]
      roomMeta == w.rMeta[room]
      isNewRoom == ~roomMeta.createdAt
      isLocationRoom == FALSE
      needsAdmin == requireAdmin
  IN  IF isNewRoom
        THEN IF isLocationRoom \/ ~needsAdmin
          THEN AddResult(
                 cancelTimer([w1 EXCEPT !.rMeta[room] =
                                [roomMeta EXCEPT !.createdAt = TRUE, !.requireAdmin = FALSE]],
                             room),
                 "", FALSE, NoToken, FALSE)
          ELSE AddResult(
                 cancelTimer([w1 EXCEPT !.rMeta[room] =
                                [createdAt |-> TRUE, adminToken |-> fresh,
                                 adminSocketId |-> id, requireAdmin |-> TRUE]],
                             room),
                 "", TRUE, fresh, TRUE)
        ELSE IF ~isLocationRoom /\ adminToken # NoToken /\ roomMeta.adminToken # NoToken
                /\ adminToken = roomMeta.adminToken
          THEN AddResult(
                 cancelTimer([w1 EXCEPT !.rMeta[room].adminSocketId = id], room),
                 "", TRUE, adminToken, FALSE)
          ELSE AddResult(cancelTimer(w1, room), "", FALSE, NoToken, FALSE)

\* addUser, lines 67-161: the store path
\* addUser from 'Store user data' on (lines 88-160): the writes that follow the
\* capacity and username checks
addUserRedisWrites(w, id, username, room, adminToken, requireAdmin, fresh) ==
  LET w1 == [w EXCEPT !.rUser[id] = [username |-> username, room |-> room],
                      !.rRoomUsers[room] = @ \cup {id}]
      roomMeta == w.rMeta[room]
      isNewRoom == ~roomMeta.createdAt
      isLocationRoom == startsWith(room, LOC_PREFIX)
      needsAdmin == requireAdmin
  IN  IF isNewRoom
        THEN IF isLocationRoom \/ ~needsAdmin
          THEN AddResult(
                 cancelTimer([w1 EXCEPT !.rMeta[room] =
                                [roomMeta EXCEPT !.createdAt = TRUE, !.requireAdmin = FALSE]],
                             room),
                 "", FALSE, NoToken, FALSE)
          ELSE AddResult(
                 cancelTimer([w1 EXCEPT !.rMeta[room] =
                                [createdAt |-> TRUE, adminToken |-> fresh,
                                 adminSocketId |-> id, requireAdmin |-> TRUE]],
                             room),
                 "", TRUE, fresh, TRUE)
        ELSE IF ~isLocationRoom /\ adminToken # NoToken /\ roomMeta.adminToken # NoToken
                /\ adminToken = roomMeta.adminToken
          THEN AddResult(
                 cancelTimer([w1 EXCEPT !.rMeta[room].adminSocketId = id], room),
                 "", TRUE, adminToken, FALSE)
          ELSE AddResult(cancelTimer(w1, room), "", FALSE, NoToken, FALSE)

\* addUser from the read of the room's metadata on (lines 104-155), applied to
\* the store as it is when the writes arrive; roomMeta is what hGetAll
\* answered
addUserMetaWrites(w, id, room, adminToken, requireAdmin, fresh, roomMeta) ==
  LET isNewRoom == ~roomMeta.createdAt
      isLocationRoom == startsWith(room, LOC_PREFIX)
      needsAdmin == requireAdmin
  IN  IF isNewRoom
        THEN IF isLocationRoom \/ ~needsAdmin
          THEN AddResult(
                 cancelTimer([w EXCEPT !.rMeta[room].createdAt = TRUE,
                                       !.rMeta[room].requireAdmin = FALSE],
                             room),
                 "", FALSE, NoToken, FALSE)
          ELSE AddResult(
                 cancelTimer([w EXCEPT !.rMeta[room] =
                                [createdAt |-> TRUE, adminToken |-> fresh,
                                 adminSocketId |-> id, requireAdmin |-> TRUE]],
                             room),
                 "", TRUE, fresh, TRUE)
        ELSE IF ~isLocationRoom /\ adminToken # NoToken /\ roomMeta.adminToken # NoToken
                /\ adminToken = roomMeta.adminToken
          THEN AddResult(
                 cancelTimer([w EXCEPT !.rMeta[room].adminSocketId = id], room),
                 "", TRUE, adminToken, FALSE)
          ELSE AddResult(cancelTimer(w, room), "", FALSE, NoToken, FALSE)

addUserRedis(w, id, username, room, adminToken, requireAdmin, fresh) ==
  LET w0 == CleanStale(w, room)
      capacityCheck == checkRoomCapacity(w, room)
      taken == \E socketId \in w0.rRoomUsers[room] :
                 w0.rUser[socketId] # None /\ w0.rUser[socketId].username = username
  IN  IF capacityCheck.isFull THEN AddResult(w0, E_FULL, FALSE, NoToken, FALSE)
      ELSE IF taken THEN AddResult(w0, E_TAKEN, FALSE, NoToken, FALSE)
      ELSE addUserRedisWrites(w0, id, username, room, adminToken, requireAdmin, fresh)

\* addUser, lines 51-65
addUser(w, id, username0, room0, adminToken, requireAdmin, fresh) ==
  IF username0 = <<>> \/ room0 = <<>>
    THEN AddResult(w, E_REQUIRED, FALSE, NoToken, FALSE)
    ELSE IF ~redisConnected
      THEN addUserInMemory(w, id, normName(username0), normRoom(room0),
                           adminToken, requireAdmin, fresh)
      ELSE addUserRedis(w, id, normName(username0), normRoom(room0),
                        adminToken, requireAdmin, fresh)

removeUser(w, id) ==
  IF ~redisConnected \/ w.rUser[id] = None
    THEN removeUserInMemory(w, id)
    ELSE LET user == [id |-> id, username |-> w.rUser[id].username,
                      room |-> w.rUser[id].room]
         IN  [w |-> [w EXCEPT !.rRoomUsers[user.room] = @ \ {id},
                              !.rUser[id] = None],
              user |-> user]

(***************************************************************************)
(* Admin functions.                                                        *)
(***************************************************************************)
\* isRoomAdmin that asks whether the room has an admin, not who it is
isRoomAdmin_anyAdmin(w, socketId, room0) ==
  LET room == normRoom(room0)
  IN  IF ~redisConnected
        THEN w.inMemoryRooms[room] # None /\ w.inMemoryRooms[room].adminSocketId # NoConn
        ELSE w.rMeta[room].adminSocketId # NoConn

isRoomAdmin(w, socketId, room0) ==
  LET room == normRoom(room0)
  IN  IF ~redisConnected
        THEN w.inMemoryRooms[room] # None /\ w.inMemoryRooms[room].adminSocketId = socketId
        ELSE w.rMeta[room].adminSocketId = socketId

getRoomAdmin(w, room0) ==
  LET room == normRoom(room0)
  IN  IF ~redisConnected
        THEN IF w.inMemoryRooms[room] # None
               THEN w.inMemoryRooms[room].adminSocketId ELSE NoConn
        ELSE w.rMeta[room].adminSocketId

getRoomAdminToken(w, room0) ==
  LET room == normRoom(room0)
  IN  IF ~redisConnected
        THEN IF w.inMemoryRooms[room] # None
               THEN w.inMemoryRooms[room].adminToken ELSE NoToken
        ELSE w.rMeta[room].adminToken

isRoomAdminRequired(w, room0) ==
  LET room == normRoom(room0)
  IN  IF ~redisConnected
        THEN w.inMemoryRooms[room] # None /\ w.inMemoryRooms[room].requireAdmin
        ELSE w.rMeta[room].requireAdmin

\* transferAdmin: installs newAdminToken; success is false when the fallback
\* does not know the room
transferAdmin(w, room0, newAdminSocketId, newAdminToken) ==
  LET room == normRoom(room0)
  IN  IF ~redisConnected
        THEN IF w.inMemoryRooms[room] # None
               THEN [w |-> [w EXCEPT !.inMemoryRooms[room].adminSocketId = newAdminSocketId,
                                     !.inMemoryRooms[room].adminToken = newAdminToken],
                     success |-> TRUE]
               ELSE [w |-> w, success |-> FALSE]
        ELSE [w |-> [w EXCEPT !.rMeta[room].adminSocketId = newAdminSocketId,
                              !.rMeta[room].adminToken = newAdminToken],
              success |-> TRUE]

(***************************************************************************)
(* Pending users.                                                          *)
(***************************************************************************)
\* a pending entry {socketId, username, requestedAt}.  requestedAt is the time
\* of the request, so two requests never give the same JSON member: the Redis
\* set is a bag of {socketId, username}
PendingUser(socketId, username) == [socketId |-> socketId, username |-> username]

addPendingUser(w, room0, pendingUser) ==
  LET room == normRoom(room0)
      roomData == IF w.inMemoryRooms[room] = None THEN NewRoomData
                  ELSE w.inMemoryRooms[room]
  IN  IF ~redisConnected
        THEN [w EXCEPT !.inMemoryRooms[room] =
                [roomData EXCEPT !.pending = Append(@, pendingUser)]]
        ELSE [w EXCEPT !.rPending[room] = @ (+) SetToBag({pendingUser})]

\* the pending entries of a room, as a set
getPendingUsers(w, room0) ==
  LET room == normRoom(room0)
  IN  IF ~redisConnected
        THEN IF w.inMemoryRooms[room] # None
               THEN {w.inMemoryRooms[room].pending[i] :
                       i \in 1..Len(w.inMemoryRooms[room].pending)}
               ELSE {}
        ELSE BagToSet(w.rPending[room])

\* the number of entries in the pending list of a room
pendingCount(w, room0) ==
  LET room == normRoom(room0)
  IN  IF ~redisConnected
        THEN IF w.inMemoryRooms[room] # None
               THEN Len(w.inMemoryRooms[room].pending) ELSE 0
        ELSE BagCardinality(w.rPending[room])

\* removePendingUser that finds the entry and leaves it in the list
removePendingUser_keepsEntry(w, room0, socketId) ==
  LET room == normRoom(room0)
      roomData == w.inMemoryRooms[room]
      mine == IF ~redisConnected
                THEN IF roomData = None THEN {}
                     ELSE {roomData.pending[i] : i \in
                             {k \in 1..Len(roomData.pending) :
                                roomData.pending[k].socketId = socketId}}
                ELSE {p \in BagToSet(w.rPending[room]) : p.socketId = socketId}
  IN  IF mine # {} THEN {[w |-> w, pending |-> p] : p \in mine}
      ELSE {[w |-> w, pending |-> None]}

\* removePendingUser: removes one entry of socketId (the first of the array, any
\* one of the set, whose order sMembers does not fix); pending is None when the
\* socket has no entry.  The set of possible outcomes.
removePendingUser(w, room0, socketId) ==
  LET room == normRoom(room0)
      roomData == w.inMemoryRooms[room]
      index == IF \E i \in 1..Len(roomData.pending) : roomData.pending[i].socketId = socketId
                 THEN CHOOSE i \in 1..Len(roomData.pending) :
                        /\ roomData.pending[i].socketId = socketId
                        /\ \A j \in 1..(i - 1) : roomData.pending[j].socketId # socketId
                 ELSE 0
      mine == {p \in BagToSet(w.rPending[room]) : p.socketId = socketId}
  IN  IF ~redisConnected
        THEN IF roomData # None /\ index # 0
               THEN {[w |-> [w EXCEPT !.inMemoryRooms[room].pending = RemoveAt(@, index)],
                      pending |-> roomData.pending[index]]}
               ELSE {[w |-> w, pending |-> None]}
        ELSE IF mine # {}
               THEN {[w |-> [w EXCEPT !.rPending[room] = @ (-) SetToBag({p})],
                      pending |-> p] : p \in mine}
               ELSE {[w |-> w, pending |-> None]}

clearPendingUsers(w, room0) ==
  LET room == normRoom(room0)
  IN  IF ~redisConnected
        THEN IF w.inMemoryRooms[room] # None
               THEN [w EXCEPT !.inMemoryRooms[room].pending = <<>>]
               ELSE w
        ELSE [w EXCEPT !.rPending[room] = EmptyBag]

(***************************************************************************)
(* Room cleanup.                                                           *)
(***************************************************************************)
scheduleRoomCleanup(w, room0) ==
  [w EXCEPT !.roomCleanupTimers[normRoom(room0)] = "armed"]

\* a cancelRoomCleanup that leaves the timer running
cancelRoomCleanup_keepsTimer(w, room0) == w

cancelRoomCleanup(w, room0) ==
  [w EXCEPT !.roomCleanupTimers[normRoom(room0)] = "none"]

\* a timer body that deletes the users and pending keys but keeps the metadata
cleanupExpired_keepsMeta(w, room) ==
  IF getRoomCount(w, room) = 0
    THEN [CleanStale(w, room) EXCEPT !.rRoomUsers[room] = {}, !.rPending[room] = EmptyBag,
                                     !.rMessages[room] = <<>>,
                                     !.roomCleanupTimers[room] = "none"]
    ELSE [CleanStale(w, room) EXCEPT !.roomCleanupTimers[room] = "fired"]

\* the body of the timer scheduleRoomCleanup arms (lines 755-782); a timer that
\* finds users in the room leaves its handle in the Map
cleanupExpired(w, room) ==
  LET w0 == CleanStale(w, room)
  IN  IF getRoomCount(w, room) = 0
        THEN IF redisConnected
          THEN [w0 EXCEPT !.rMeta[room] = NoMeta, !.rRoomUsers[room] = {},
                          !.rPending[room] = EmptyBag, !.rMessages[room] = <<>>,
                          !.inMemoryRooms[room] = None,
                          !.roomCleanupTimers[room] = "none"]
          ELSE [w0 EXCEPT !.inMemoryRooms[room] = None,
                          !.roomCleanupTimers[room] = "none"]
        ELSE [w0 EXCEPT !.roomCleanupTimers[room] = "fired"]

\* a timer body that stops at the failure of its callback
cleanupExpiredClearFails_stops(w, room) ==
  [CleanStale(w, room) EXCEPT !.roomCleanupTimers[room] = "fired"]

\* the body of the timer when the callback handleUserLeaving gave it fails:
\* the DEL of clearRoomMessages throws, clearRoomMessages logs it and answers
\* false (messageService.js:267-275), the callback returns, and the body goes
\* on to delete the room's keys (userManagerRedis.js:766-781)
cleanupExpiredClearFails(w, room) ==
  LET w0 == CleanStale(w, room)
  IN  IF getRoomCount(w, room) = 0
        THEN [w0 EXCEPT !.rMeta[room] = NoMeta, !.rRoomUsers[room] = {},
                        !.rPending[room] = EmptyBag,
                        !.inMemoryRooms[room] = None,
                        !.roomCleanupTimers[room] = "none"]
        ELSE [w0 EXCEPT !.roomCleanupTimers[room] = "fired"]

(***************************************************************************)
(* socketHandler.js: the event handlers.  A handler yields the set of its  *)
(* possible outcomes: the stores, the callback's argument, the events      *)
(* emitted to single sockets, and whether a fresh token was generated.     *)
(***************************************************************************)
Outcome(w, rep, events, generated) ==
  [w |-> w, reply |-> rep, emitted |-> events, generated |-> generated,
   user |-> None]

\* an outcome of a handler that got the user record { id, username, room,
\* isAdmin } back from addUser
WithUser(o, id, username, room, added) ==
  [o EXCEPT !.user = [id |-> id, username |-> normName(username),
                      room |-> normRoom(room), isAdmin |-> added.isAdmin]]

\* the gate without its test that the room has users
NeedsApproval_ignoresMembers(currentAdmin, roomCount, isNearbyRoom, isReturningAdmin, roomRequiresAdmin) ==
  /\ currentAdmin # NoConn
  /\ ~isNearbyRoom
  /\ ~isReturningAdmin
  /\ roomRequiresAdmin

\* the approval gate of the join handler (line 308)
NeedsApproval(currentAdmin, roomCount, isNearbyRoom, isReturningAdmin, roomRequiresAdmin) ==
  /\ currentAdmin # NoConn
  /\ roomCount > 0
  /\ ~isNearbyRoom
  /\ ~isReturningAdmin
  /\ roomRequiresAdmin

\* the join handler's validation (lines 266-291): the error, or "" when valid
joinValidation(username, room) ==
  LET sanitizedUsername == sanitizeUsername(username)
      sanitizedRoom == sanitizeRoomId(room)
  IN  IF username = <<>> \/ room = <<>> THEN E_JOIN_REQUIRED
      ELSE IF sanitizedUsername = <<>> \/ sanitizedRoom = <<>> THEN E_FORMAT
      ELSE IF Len(sanitizedUsername) > MAX_USERNAME_LEN THEN E_TOO_LONG
      ELSE IF Len(sanitizedUsername) < MIN_USERNAME_LEN THEN E_TOO_SHORT
      ELSE ""

\* the join handler answering every admitted join with the room's token
joinAdmission_tellsToken(w, id, sanitizedUsername, sanitizedRoom, adminToken, requireAdmin, fresh) ==
  LET currentAdmin == getRoomAdmin(w, sanitizedRoom)
      currentAdminToken == getRoomAdminToken(w, sanitizedRoom)
      roomCount == getRoomCount(w, sanitizedRoom)
      w0 == CleanStale(w, sanitizedRoom)
      isNearbyRoom == startsWith(sanitizedRoom, LOC_PREFIX)
      roomRequiresAdmin == isRoomAdminRequired(w, sanitizedRoom)
      isReturningAdmin == adminToken # NoToken /\ currentAdminToken # NoToken
                          /\ adminToken = currentAdminToken
      added == addUser(w0, id, sanitizedUsername, sanitizedRoom, adminToken,
                       requireAdmin, fresh)
      room == normRoom(sanitizedRoom)
      w1 == CleanStale(cancelRoomCleanup(added.w, room), room)
      adminSocketId == getRoomAdmin(w1, room)
      isUserAdmin == added.isAdmin \/ id = adminSocketId
  IN  IF NeedsApproval(currentAdmin, roomCount, isNearbyRoom, isReturningAdmin,
                       roomRequiresAdmin)
        THEN Outcome(addPendingUser(w0, sanitizedRoom, PendingUser(id, sanitizedUsername)),
                     Reply("join", id, "pending", NoToken),
                     {Event(currentAdmin, "joinRequest", id, "", FALSE, NoToken)},
                     FALSE)
        ELSE IF added.error # ""
          THEN Outcome(added.w, Reply("join", id, added.error, NoToken), {}, FALSE)
          ELSE WithUser(Outcome(w1, Reply("join", id, "ok", getRoomAdminToken(w1, room)),
                                {Event(id, "adminStatus", id, "", isUserAdmin,
                                       IF isUserAdmin THEN added.adminToken
                                       ELSE NoToken)},
                                added.generated),
                        id, sanitizedUsername, sanitizedRoom, added)

\* the join handler from the approval gate on (lines 293-395)
joinAdmission(w, id, sanitizedUsername, sanitizedRoom, adminToken, requireAdmin, fresh) ==
  LET currentAdmin == getRoomAdmin(w, sanitizedRoom)
      currentAdminToken == getRoomAdminToken(w, sanitizedRoom)
      roomCount == getRoomCount(w, sanitizedRoom)
      w0 == CleanStale(w, sanitizedRoom)
      isNearbyRoom == startsWith(sanitizedRoom, LOC_PREFIX)
      roomRequiresAdmin == isRoomAdminRequired(w, sanitizedRoom)
      isReturningAdmin == adminToken # NoToken /\ currentAdminToken # NoToken
                          /\ adminToken = currentAdminToken
      added == addUser(w0, id, sanitizedUsername, sanitizedRoom, adminToken,
                       requireAdmin, fresh)
      room == normRoom(sanitizedRoom)
      w1 == CleanStale(cancelRoomCleanup(added.w, room), room)
      adminSocketId == getRoomAdmin(w1, room)
      isUserAdmin == added.isAdmin \/ id = adminSocketId
  IN  IF NeedsApproval(currentAdmin, roomCount, isNearbyRoom, isReturningAdmin,
                       roomRequiresAdmin)
        THEN Outcome(addPendingUser(w0, sanitizedRoom, PendingUser(id, sanitizedUsername)),
                     Reply("join", id, "pending", NoToken),
                     {Event(currentAdmin, "joinRequest", id, "", FALSE, NoToken)},
                     FALSE)
        ELSE IF added.error # ""
          THEN Outcome(added.w, Reply("join", id, added.error, NoToken), {}, FALSE)
          ELSE WithUser(Outcome(w1, Reply("join", id, "ok", added.adminToken),
                                {Event(id, "adminStatus", id, "", isUserAdmin,
                                       IF isUserAdmin THEN added.adminToken
                                       ELSE NoToken)},
                                added.generated),
                        id, sanitizedUsername, sanitizedRoom, added)

\* socket.on('join'); rateLimited is checkRateLimit's verdict for this call
joinHandler(w, id, username, room, adminToken, requireAdmin, fresh, rateLimited) ==
  IF rateLimited THEN Outcome(w, Reply("join", id, E_RATE, NoToken), {}, FALSE)
  ELSE IF joinValidation(username, room) # ""
    THEN Outcome(w, Reply("join", id, joinValidation(username, room), NoToken), {}, FALSE)
    ELSE joinAdmission(w, id, sanitizeUsername(username), sanitizeRoomId(room),
                       adminToken, requireAdmin, fresh)

\* socket.on('approveJoin')
approveJoinHandler(w, id, pendingSocketId, room) ==
  IF getUser(w, id) = None
    THEN {Outcome(w, Reply("approveJoin", id, E_NOT_IN_ROOM, NoToken), {}, FALSE)}
  ELSE IF ~isRoomAdmin(w, id, room)
    THEN {Outcome(w, Reply("approveJoin", id, E_ONLY_ADMIN_APPROVE, NoToken), {}, FALSE)}
  ELSE
    {IF removed.pending = None
       THEN Outcome(w, Reply("approveJoin", id, E_PENDING_NOT_FOUND, NoToken), {}, FALSE)
       ELSE LET added == addUser(removed.w, pendingSocketId, removed.pending.username,
                                 room, NoToken, FALSE, NoToken)
            IN  IF added.error # ""
                  THEN Outcome(added.w, Reply("approveJoin", id, added.error, NoToken),
                               {Event(pendingSocketId, "joinRejected", pendingSocketId,
                                      added.error, FALSE, NoToken)},
                               FALSE)
                  ELSE WithUser(Outcome(CleanStale(added.w, normRoom(room)),
                                        Reply("approveJoin", id, "ok", NoToken),
                                        IF sock[pendingSocketId] = "open"
                                          THEN {Event(pendingSocketId, "joinApproved",
                                                      pendingSocketId, "", FALSE,
                                                      NoToken)}
                                          ELSE {},
                                        FALSE),
                                pendingSocketId, removed.pending.username, room, added)
     : removed \in removePendingUser(w, room, pendingSocketId)}

\* rejectJoin that passes the reason on as it came, without the default
rejectJoinHandler_noDefault(w, id, pendingSocketId, room, reason) ==
  IF getUser(w, id) = None
    THEN {Outcome(w, Reply("rejectJoin", id, E_NOT_IN_ROOM, NoToken), {}, FALSE)}
  ELSE IF ~isRoomAdmin(w, id, room)
    THEN {Outcome(w, Reply("rejectJoin", id, E_ONLY_ADMIN_REJECT, NoToken), {}, FALSE)}
  ELSE
    {IF removed.pending = None
       THEN Outcome(w, Reply("rejectJoin", id, E_PENDING_NOT_FOUND, NoToken), {}, FALSE)
       ELSE Outcome(removed.w, Reply("rejectJoin", id, "ok", NoToken),
                    {Event(pendingSocketId, "joinRejected", pendingSocketId, reason,
                           FALSE, NoToken),
                     Event(id, "pendingUsersUpdate", pendingSocketId, "", FALSE, NoToken)},
                    FALSE)
     : removed \in removePendingUser(w, room, pendingSocketId)}

\* a rejectJoin that answers success for a socket without a waiting request
rejectJoinHandler_okWhenMissing(w, id, pendingSocketId, room, reason) ==
  IF getUser(w, id) = None
    THEN {Outcome(w, Reply("rejectJoin", id, E_NOT_IN_ROOM, NoToken), {}, FALSE)}
  ELSE IF ~isRoomAdmin(w, id, room)
    THEN {Outcome(w, Reply("rejectJoin", id, E_ONLY_ADMIN_REJECT, NoToken), {}, FALSE)}
  ELSE
    {Outcome(removed.w, Reply("rejectJoin", id, "ok", NoToken),
             {Event(pendingSocketId, "joinRejected", pendingSocketId,
                    IF reason # "" THEN reason ELSE DEFAULT_REJECT_REASON,
                    FALSE, NoToken),
              Event(id, "pendingUsersUpdate", pendingSocketId, "", FALSE, NoToken)},
             FALSE)
     : removed \in removePendingUser(w, room, pendingSocketId)}

\* socket.on('rejectJoin'); reason "" stands for no reason given
rejectJoinHandler(w, id, pendingSocketId, room, reason) ==
  IF getUser(w, id) = None
    THEN {Outcome(w, Reply("rejectJoin", id, E_NOT_IN_ROOM, NoToken), {}, FALSE)}
  ELSE IF ~isRoomAdmin(w, id, room)
    THEN {Outcome(w, Reply("rejectJoin", id, E_ONLY_ADMIN_REJECT, NoToken), {}, FALSE)}
  ELSE
    {IF removed.pending = None
       THEN Outcome(w, Reply("rejectJoin", id, E_PENDING_NOT_FOUND, NoToken), {}, FALSE)
       ELSE Outcome(removed.w, Reply("rejectJoin", id, "ok", NoToken),
                    {Event(pendingSocketId, "joinRejected", pendingSocketId,
                           IF reason # "" THEN reason ELSE DEFAULT_REJECT_REASON,
                           FALSE, NoToken),
                     Event(id, "pendingUsersUpdate", pendingSocketId, "", FALSE, NoToken)},
                    FALSE)
     : removed \in removePendingUser(w, room, pendingSocketId)}

\* socket.on('cancelJoinRequest')
cancelJoinRequestHandler(w, id, room) ==
  {Outcome(removed.w, Reply("cancelJoinRequest", id, "ok", NoToken),
           IF removed.pending # None /\ getRoomAdmin(removed.w, room) # NoConn
             THEN {Event(getRoomAdmin(removed.w, room), "pendingUsersUpdate", id, "",
                         FALSE, NoToken)}
             ELSE {},
           FALSE)
   : removed \in removePendingUser(w, room, id)}

\* socket.on('kickUser'); room is compared as the client sent it (line 605)
kickUserHandler(w, id, targetSocketId, room) ==
  LET targetUser == getUser(w, targetSocketId)
      removed == removeUser(w, targetSocketId)
  IN  IF ~isRoomAdmin(w, id, room)
        THEN Outcome(w, Reply("kickUser", id, E_ONLY_ADMIN_KICK, NoToken), {}, FALSE)
      ELSE IF targetSocketId = id
        THEN Outcome(w, Reply("kickUser", id, E_KICK_SELF, NoToken), {}, FALSE)
      ELSE IF targetUser = None \/ targetUser.room # room
        THEN Outcome(w, Reply("kickUser", id, E_USER_NOT_FOUND, NoToken), {}, FALSE)
      ELSE Outcome(CleanStale(removed.w, normRoom(room)),
                   Reply("kickUser", id, "ok", NoToken),
                   IF sock[targetSocketId] = "open"
                     THEN {Event(targetSocketId, "kicked", targetSocketId, KICK_REASON,
                                 FALSE, NoToken)}
                     ELSE {},
                   FALSE)

(***************************************************************************)
(* messageService.js: the stored history, and sendMessage.                 *)
(***************************************************************************)
\* message texts a client may send
T_lt == <<"a", "<", "b">>
T_blank == <<" ">>
T_object == <<"<", "o", "B", "j", "e", "c", "t">>
MessageTexts == {T_lt, T_blank, T_object, <<>>}

E_MSG_USER == "User not found"
E_MSG_FORMAT == "Invalid message format"
E_MSG_EMPTY == "Empty message"
E_MSG_DANGEROUS == "Message contains potentially dangerous content"

\* s has p as a substring
containsSeq(s, p) ==
  \E i \in 1..(Len(s) - Len(p) + 1) : SubSeq(s, i, i + Len(p) - 1) = p

\* the literal patterns among sanitizeMessage's dangerousPatterns, matched
\* ignoring case
DangerousPatterns ==
  {<<"<", "i", "f", "r", "a", "m", "e">>, <<"<", "o", "b", "j", "e", "c", "t">>,
   <<"<", "e", "m", "b", "e", "d">>,
   <<"j", "a", "v", "a", "s", "c", "r", "i", "p", "t", ":">>}

escapeChar(ch) ==
  IF ch = "&" THEN <<"&", "a", "m", "p", ";">>
  ELSE IF ch = "<" THEN <<"&", "l", "t", ";">>
  ELSE IF ch = ">" THEN <<"&", "g", "t", ";">>
  ELSE IF ch = "\"" THEN <<"&", "q", "u", "o", "t", ";">>
  ELSE IF ch = "'" THEN <<"&", "#", "x", "2", "7", ";">>
  ELSE IF ch = "/" THEN <<"&", "#", "x", "2", "F", ";">>
  ELSE <<ch>>

RECURSIVE sanitizeInputChars(_)
sanitizeInputChars(s) ==
  IF s = <<>> THEN <<>> ELSE escapeChar(Head(s)) \o sanitizeInputChars(Tail(s))

\* sanitizeInput: escapes the HTML special characters, then trims
sanitizeInput(input) == trim(sanitizeInputChars(input))

\* sanitizeMessage: { isValid, sanitized, reason }
sanitizeMessage(message) ==
  LET trimmed == trim(message)
  IN  IF trimmed = <<>>
        THEN [isValid |-> FALSE, sanitized |-> <<>>, reason |-> E_MSG_EMPTY]
      ELSE IF \E p \in DangerousPatterns : containsSeq(toLowerCase(trimmed), p)
        THEN [isValid |-> FALSE, sanitized |-> <<>>, reason |-> E_MSG_DANGEROUS]
      ELSE [isValid |-> TRUE, sanitized |-> sanitizeInput(trimmed), reason |-> ""]

\* a saveMessage that pushes without trimming
saveMessage_noTrim(w, roomId, message) ==
  IF ~redisConnected THEN w
  ELSE [w EXCEPT !.rMessages[roomId] = Append(@, message)]

\* saveMessage: RPUSH, then LTRIM to the last MAX_MESSAGES_PER_ROOM; nothing is
\* stored while Redis is not connected.  The key is the room id as given.
saveMessage(w, roomId, message) ==
  IF ~redisConnected THEN w
  ELSE LET pushed == Append(w.rMessages[roomId], message)
           n == Len(pushed)
       IN  [w EXCEPT !.rMessages[roomId] =
              IF n > MAX_MESSAGES_PER_ROOM
                THEN SubSeq(pushed, n - MAX_MESSAGES_PER_ROOM + 1, n)
                ELSE pushed]

\* clearRoomMessages: DEL of the list, when Redis is connected
clearRoomMessages(w, roomId) ==
  IF ~redisConnected THEN w ELSE [w EXCEPT !.rMessages[roomId] = <<>>]

\* socket.on('sendMessage'); the length limit of 1000 is out of the texts' reach
sendMessageHandler(w, id, message, rateLimited) ==
  LET user == getUser(w, id)
      sanitizationResult == sanitizeMessage(message)
  IN  IF rateLimited THEN Outcome(w, Reply("sendMessage", id, E_RATE, NoToken), {}, FALSE)
      ELSE IF user = None
        THEN Outcome(w, Reply("sendMessage", id, E_MSG_USER, NoToken), {}, FALSE)
      ELSE IF message = <<>>
        THEN Outcome(w, Reply("sendMessage", id, E_MSG_FORMAT, NoToken), {}, FALSE)
      ELSE IF ~sanitizationResult.isValid
        THEN Outcome(w, Reply("sendMessage", id, sanitizationResult.reason, NoToken),
                     {}, FALSE)
      ELSE Outcome(saveMessage(w, user.room,
                               [user |-> user.username,
                                text |-> sanitizationResult.sanitized]),
                   Reply("sendMessage", id, "ok", NoToken), {}, FALSE)

(***************************************************************************)
(* Store failures.  Every store call of addUser, removeUser and getUser    *)
(* sits in a try block whose catch runs the fallback's function; the read  *)
(* of checkRoomCapacity has its own catch inside getUsersInRoom.           *)
(***************************************************************************)
\* the store calls of addUser at which the client may throw: the read of the
\* capacity check (caught inside getUsersInRoom, line 277), sMembers of the
\* username check (79), hSet of the user hash (96), sAdd to the room's set
\* (100), hGetAll of the metadata (105), expire of the metadata (147)
AddUserFailPoints == {"capacity", "sMembers", "hSetUser", "sAdd", "hGetAllMeta", "expireMeta"}

\* an addUser whose catch hands the store's failure to the caller
addUserStoreFails_surfacesError(w, id, username0, room0, adminToken, requireAdmin, fresh, failAt) ==
  [added |-> AddResult(w, "Store unavailable", FALSE, NoToken, FALSE), tokens |-> 0]

\* addUser on the store path with the call failAt throwing; tokens counts the
\* tokens generated (the store path's and the fallback's are different ones)
addUserStoreFails(w, id, username0, room0, adminToken, requireAdmin, fresh, failAt) ==
  LET username == normName(username0)
      room == normRoom(room0)
      w0 == CleanStale(w, room)
      isFull == IF failAt = "capacity"
                  THEN Len(getUsersInRoomInMemory(w, room)) >= Capacity(room)
                  ELSE checkRoomCapacity(w, room).isFull
      wc == IF failAt = "capacity" THEN w ELSE w0
      taken == \E socketId \in wc.rRoomUsers[room] :
                 wc.rUser[socketId] # None /\ wc.rUser[socketId].username = username
      wUser == [wc EXCEPT !.rUser[id] = [username |-> username, room |-> room]]
      wSet == [wUser EXCEPT !.rRoomUsers[room] = @ \cup {id}]
      written == addUserRedisWrites(wc, id, username, room, adminToken, requireAdmin,
                                    fresh)
      wMeta == [written.w EXCEPT !.roomCleanupTimers = wc.roomCleanupTimers]
      viaFallback(partial, storeTokens) ==
        LET added == addUserInMemory(partial, id, username, room, adminToken,
                                     requireAdmin, fresh + storeTokens)
        IN  [added |-> added,
             tokens |-> storeTokens + (IF added.generated THEN 1 ELSE 0)]
  IN  IF username0 = <<>> \/ room0 = <<>>
        THEN [added |-> AddResult(w, E_REQUIRED, FALSE, NoToken, FALSE), tokens |-> 0]
      ELSE IF isFull
        THEN [added |-> AddResult(wc, E_FULL, FALSE, NoToken, FALSE), tokens |-> 0]
      ELSE IF failAt = "sMembers" THEN viaFallback(wc, 0)
      ELSE IF taken
        THEN [added |-> AddResult(wc, E_TAKEN, FALSE, NoToken, FALSE), tokens |-> 0]
      ELSE IF failAt = "capacity"
        THEN [added |-> written, tokens |-> IF written.generated THEN 1 ELSE 0]
      ELSE IF failAt = "hSetUser" THEN viaFallback(wc, 0)
      ELSE IF failAt = "sAdd" THEN viaFallback(wUser, 0)
      ELSE IF failAt = "hGetAllMeta" THEN viaFallback(wSet, 0)
      ELSE viaFallback(wMeta, IF written.generated THEN 1 ELSE 0)

\* the store calls of removeUser at which the client may throw: hGetAll of the
\* user hash (184), sRem from the room's set (199), del of the user hash (206)
RemoveUserFailPoints == {"hGetAll", "sRem", "del"}

removeUserStoreFails(w, id, failAt) ==
  IF failAt = "hGetAll" \/ w.rUser[id] = None \/ failAt = "sRem"
    THEN removeUserInMemory(w, id)
    ELSE removeUserInMemory([w EXCEPT !.rRoomUsers[w.rUser[id].room] = @ \ {id}], id)

\* getUser with hGetAll throwing (line 240)
getUserStoreFails(w, id) == getUserInMemory(w, id)

\* usersInRoom[0]: the first of the fallback's array; sMembers fixes no order
firstUserIds(w, room) ==
  IF redisConnected THEN ValidIds(w, room)
  ELSE IF getUsersInRoomInMemory(w, room) # <<>>
    THEN {getUsersInRoomInMemory(w, room)[1].id}
    ELSE {}

\* handleUserLeaving that clears the room's admin when the admin leaves
handleUserLeaving_clearsAdmin(w, id, user, op, fresh) ==
  LET wasAdmin == isRoomAdmin(w, id, user.room)
      w0 == CleanStale(w, user.room)
      count == getRoomCount(w, user.room)
      w1 == IF wasAdmin
              THEN transferAdmin(w0, user.room, NoConn,
                                 getRoomAdminToken(w, user.room)).w
              ELSE w0
  IN  IF count = 0
        THEN {Outcome(scheduleRoomCleanup(clearPendingUsers(w1, user.room), user.room),
                      Reply(op, id, "left", NoToken), {}, FALSE)}
        ELSE {Outcome(w1, Reply(op, id, "left", NoToken), {}, FALSE)}

\* handleUserLeaving that hands the admin role on whatever requireAdmin says
handleUserLeaving_transfersAlways(w, id, user, op, fresh) ==
  LET wasAdmin == isRoomAdmin(w, id, user.room)
      w0 == CleanStale(w, user.room)
      count == getRoomCount(w, user.room)
      firstIds == IF redisConnected THEN ValidIds(w, user.room)
                  ELSE {getUsersInRoomInMemory(w, user.room)[1].id}
  IN  IF wasAdmin /\ count > 0
        THEN {LET transferResult == transferAdmin(w0, user.room, newAdmin, fresh)
              IN  Outcome(transferResult.w, Reply(op, id, "left", NoToken),
                          {Event(newAdmin, "adminStatus", newAdmin, "", TRUE,
                                 IF transferResult.success THEN fresh ELSE NoToken)},
                          TRUE)
              : newAdmin \in firstIds}
      ELSE IF count = 0
        THEN {Outcome(scheduleRoomCleanup(clearPendingUsers(w0, user.room), user.room),
                      Reply(op, id, "left", NoToken), {}, FALSE)}
        ELSE {Outcome(w0, Reply(op, id, "left", NoToken), {}, FALSE)}

\* handleUserLeaving that installs a new token when the admin of a room with
\* requireAdmin leaves
handleUserLeaving_renewsToken(w, id, user, op, fresh) ==
  LET wasAdmin == isRoomAdmin(w, id, user.room)
      w0 == CleanStale(w, user.room)
      count == getRoomCount(w, user.room)
      roomRequiresAdmin == isRoomAdminRequired(w, user.room)
      w1 == IF wasAdmin /\ roomRequiresAdmin
              THEN transferAdmin(w0, user.room, id, fresh).w
              ELSE w0
  IN  IF count = 0
        THEN {Outcome(scheduleRoomCleanup(clearPendingUsers(w1, user.room), user.room),
                      Reply(op, id, "left", NoToken), {}, wasAdmin /\ roomRequiresAdmin)}
        ELSE {Outcome(w1, Reply(op, id, "left", NoToken), {}, wasAdmin /\ roomRequiresAdmin)}

\* handleUserLeaving (lines 967-1043), for the user removeUser returned
handleUserLeaving(w, id, user, op, fresh) ==
  LET wasAdmin == isRoomAdmin(w, id, user.room)
      w0 == CleanStale(w, user.room)
      count == getRoomCount(w, user.room)
      roomRequiresAdmin == isRoomAdminRequired(w, user.room)
  IN  IF wasAdmin /\ count > 0 /\ ~roomRequiresAdmin
        THEN {LET transferResult == transferAdmin(w0, user.room, newAdmin, fresh)
              IN  Outcome(transferResult.w, Reply(op, id, "left", NoToken),
                          {Event(newAdmin, "adminStatus", newAdmin, "", TRUE,
                                 IF transferResult.success THEN fresh ELSE NoToken)},
                          TRUE)
              : newAdmin \in firstUserIds(w, user.room)}
      ELSE IF count = 0
        THEN {Outcome(scheduleRoomCleanup(clearPendingUsers(w0, user.room), user.room),
                      Reply(op, id, "left", NoToken), {}, FALSE)}
        ELSE {Outcome(w0, Reply(op, id, "left", NoToken), {}, FALSE)}

\* the part leaveRoom and disconnect share once the socket is marked
removeAndLeave(w, id, op, fresh) ==
  LET removed == removeUser(w, id)
  IN  IF removed.user = None
        THEN {Outcome(w, Reply(op, id, "no user", NoToken), {}, FALSE)}
        ELSE handleUserLeaving(removed.w, id, removed.user, op, fresh)

(***************************************************************************)
(* Actions.                                                                *)
(***************************************************************************)
\* nothing stored, no timer pending
InitStores ==
  /\ rUser = [c \in Conn |-> None]
  /\ rRoomUsers = [r \in Rooms |-> {}]
  /\ rMeta = [r \in Rooms |-> NoMeta]
  /\ rPending = [r \in Rooms |-> EmptyBag]
  /\ rMessages = [r \in Rooms |-> <<>>]
  /\ inMemoryUsers = <<>>
  /\ inMemoryRooms = [r \in Rooms |-> None]
  /\ roomCleanupTimers = [r \in Rooms |-> "none"]
  /\ recentlyRemovedUsers = {}
  /\ removalTimers = {}
  /\ nextToken = 1
  /\ inFlight = NoInFlight

\* the server with MaxClients clients connected (io.on('connection') only
\* registers the handlers); the other socket ids belong to clients that are
\* gone.  The Redis client is connected, or the server runs on the fallback.
Init ==
  /\ redisConnected \in BOOLEAN
  /\ sock = [c \in Conn |-> IF c \in Clients THEN "open" ELSE "closed"]
  /\ InitStores

\* the effect of a handler that ended with outcome o
Apply(o) ==
  /\ o.generated => nextToken <= MaxTokens
  /\ SetWorld(o.w)
  /\ nextToken' = IF o.generated THEN nextToken + 1 ELSE nextToken

Join(c, username, room, adminToken, requireAdmin, rateLimited) ==
  /\ sock[c] = "open"
  /\ LET o == joinHandler(World, c, username, room, adminToken, requireAdmin,
                          nextToken, rateLimited)
     IN  /\ o.reply.result = "pending" =>
              pendingCount(World, sanitizeRoomId(room)) < MaxPending
         /\ Apply(o)
  /\ UNCHANGED <<sock, redisConnected, recentlyRemovedUsers, removalTimers, inFlight>>

ApproveJoin(c, pendingSocketId, room) ==
  /\ sock[c] = "open"
  /\ \E o \in approveJoinHandler(World, c, pendingSocketId, room) : Apply(o)
  /\ UNCHANGED <<sock, redisConnected, recentlyRemovedUsers, removalTimers, inFlight>>

RejectJoin(c, pendingSocketId, room, reason) ==
  /\ sock[c] = "open"
  /\ \E o \in rejectJoinHandler(World, c, pendingSocketId, room, reason) : Apply(o)
  /\ UNCHANGED <<sock, redisConnected, recentlyRemovedUsers, removalTimers, inFlight>>

CancelJoinRequest(c, room) ==
  /\ sock[c] = "open"
  /\ \E o \in cancelJoinRequestHandler(World, c, room) : Apply(o)
  /\ UNCHANGED <<sock, redisConnected, recentlyRemovedUsers, removalTimers, inFlight>>

KickUser(c, targetSocketId, room) ==
  /\ sock[c] = "open"
  /\ Apply(kickUserHandler(World, c, targetSocketId, room))
  /\ UNCHANGED <<sock, redisConnected, recentlyRemovedUsers, removalTimers, inFlight>>

\* socket.on('leaveRoom')
LeaveRoom(c) ==
  /\ sock[c] = "open"
  /\ IF c \in recentlyRemovedUsers
       THEN UNCHANGED <<rUser, rRoomUsers, rMeta, rPending, rMessages, inMemoryUsers,
                       inMemoryRooms, roomCleanupTimers, recentlyRemovedUsers,
                       removalTimers, nextToken>>
       ELSE /\ \E o \in removeAndLeave(World, c, "leaveRoom", nextToken) : Apply(o)
            /\ recentlyRemovedUsers' = recentlyRemovedUsers \cup {c}
            /\ removalTimers' = removalTimers \cup {c}
  /\ UNCHANGED <<sock, redisConnected, inFlight>>

\* socket.on('disconnect')
Disconnect(c) ==
  /\ sock[c] = "open"
  /\ sock' = [sock EXCEPT ![c] = "closed"]
  /\ IF c \in recentlyRemovedUsers
       THEN /\ recentlyRemovedUsers' = recentlyRemovedUsers \ {c}
            /\ UNCHANGED <<rUser, rRoomUsers, rMeta, rPending, rMessages, inMemoryUsers,
                           inMemoryRooms, roomCleanupTimers, removalTimers, nextToken>>
       ELSE /\ \E o \in removeAndLeave(World, c, "disconnect", nextToken) : Apply(o)
            /\ recentlyRemovedUsers' = recentlyRemovedUsers \cup {c}
            /\ removalTimers' = removalTimers \cup {c}
  /\ inFlight' = [inFlight EXCEPT !.limits[c] = NoLimits]
  /\ UNCHANGED redisConnected

\* setTimeout(() => recentlyRemovedUsers.delete(socket.id), 5000)
RemovalTimerExpires(c) ==
  /\ c \in removalTimers
  /\ removalTimers' = removalTimers \ {c}
  /\ recentlyRemovedUsers' = recentlyRemovedUsers \ {c}
  /\ UNCHANGED <<sock, redisConnected, inFlight, rUser, rRoomUsers, rMeta, rPending, rMessages,
                 inMemoryUsers, inMemoryRooms, roomCleanupTimers, nextToken>>

\* leaveRoom up to its first await (lines 926-931): the mark is tested and set
\* in one go, then the handler waits for removeUser
LeaveRoomBegins(c) ==
  /\ sock[c] = "open"
  /\ "leaveRoom" \notin inFlight.leave[c]
  /\ IF c \in recentlyRemovedUsers
       THEN UNCHANGED <<recentlyRemovedUsers, inFlight>>
       ELSE /\ recentlyRemovedUsers' = recentlyRemovedUsers \cup {c}
            /\ inFlight' = [inFlight EXCEPT !.leave[c] = @ \cup {"leaveRoom"}]
  /\ UNCHANGED <<sock, redisConnected, rUser, rRoomUsers, rMeta, rPending, rMessages,
                 inMemoryUsers, inMemoryRooms, roomCleanupTimers, removalTimers,
                 nextToken>>

\* disconnect that marks the socket whether or not it is marked already
DisconnectBegins_unguarded(c) ==
  /\ sock[c] = "open"
  /\ sock' = [sock EXCEPT ![c] = "closed"]
  /\ recentlyRemovedUsers' = recentlyRemovedUsers \cup {c}
  /\ inFlight' = [inFlight EXCEPT !.leave[c] = @ \cup {"disconnect"},
                                  !.limits[c] = NoLimits]
  /\ UNCHANGED <<redisConnected, rUser, rRoomUsers, rMeta, rPending, rMessages, inMemoryUsers,
                 inMemoryRooms, roomCleanupTimers, removalTimers, nextToken>>

\* disconnect up to its first await (lines 949-955)
DisconnectBegins(c) ==
  /\ sock[c] = "open"
  /\ sock' = [sock EXCEPT ![c] = "closed"]
  /\ IF c \in recentlyRemovedUsers
       THEN /\ recentlyRemovedUsers' = recentlyRemovedUsers \ {c}
            /\ inFlight' = [inFlight EXCEPT !.limits[c] = NoLimits]
       ELSE /\ recentlyRemovedUsers' = recentlyRemovedUsers \cup {c}
            /\ inFlight' = [inFlight EXCEPT !.leave[c] = @ \cup {"disconnect"},
                                            !.limits[c] = NoLimits]
  /\ UNCHANGED <<redisConnected, rUser, rRoomUsers, rMeta, rPending, rMessages, inMemoryUsers,
                 inMemoryRooms, roomCleanupTimers, removalTimers, nextToken>>

\* the rest of leaveRoom / disconnect (lines 931-938, 955-962): removeUser
\* returns, handleUserLeaving runs, the 5 s timer is set
RemovalCompletes(c, op) ==
  /\ op \in inFlight.leave[c]
  /\ \E o \in removeAndLeave(World, c, op, nextToken) : Apply(o)
  /\ removalTimers' = removalTimers \cup {c}
  /\ inFlight' = [inFlight EXCEPT !.leave[c] = @ \ {op}]
  /\ UNCHANGED <<sock, redisConnected, recentlyRemovedUsers>>

\* the cleanup timer of a room expires after ROOM_CLEANUP_DELAY
CleanupTimerExpires(room) ==
  /\ roomCleanupTimers[room] = "armed"
  /\ SetWorld(cleanupExpired(World, room))
  /\ UNCHANGED <<sock, redisConnected, inFlight, recentlyRemovedUsers, removalTimers,
                 nextToken>>

\* what the clients send with join: a request for the admin-controlled kind of
\* room with every token, one for a nearby (LOC_) room, the requests the
\* validation turns down, and one the rate limiter turns down
ValidNames == {S_Al_sp, S_bo}
JoinRequests ==
  [username : ValidNames, room : {S_r1}, adminToken : {NoToken} \cup Tokens,
   requireAdmin : BOOLEAN, rateLimited : {FALSE}]
  \cup [username : {S_bo}, room : {S_LOC1}, adminToken : {NoToken, 1},
         requireAdmin : BOOLEAN, rateLimited : {FALSE}]
  \cup [username : {S_bang, <<>>}, room : {S_r1}, adminToken : {NoToken},
         requireAdmin : {FALSE}, rateLimited : {FALSE}]
  \cup [username : {S_bo}, room : {S_r1}, adminToken : {NoToken},
         requireAdmin : {FALSE}, rateLimited : {TRUE}]
RejectReasons == {"", "no"}

Next ==
  \/ \E c \in Conn, j \in JoinRequests :
       Join(c, j.username, j.room, j.adminToken, j.requireAdmin, j.rateLimited)
  \/ \E c \in Conn, p \in Conn, room \in {S_r1, S_LOC1} : ApproveJoin(c, p, room)
  \/ \E c \in Conn, p \in Conn, room \in {S_r1, S_LOC1}, reason \in RejectReasons :
       RejectJoin(c, p, room, reason)
  \/ \E c \in Conn, room \in {S_r1, S_LOC1} : CancelJoinRequest(c, room)
  \/ \E c \in Conn, t \in Conn, room \in RawRooms : KickUser(c, t, room)
  \/ \E c \in Conn : Disconnect(c)
  \/ \E room \in Rooms : CleanupTimerExpires(room)

Spec == Init /\ [][Next]_vars

\* every socket id connected, and clients that only join with a username of
\* their choice and disconnect: the load that fills a room
InitCapacity ==
  /\ redisConnected \in BOOLEAN
  /\ sock = [c \in Conn |-> "open"]
  /\ InitStores

CapacityRequests ==
  [username : {S_al, S_bo, S_cy}, room : {S_r1}, adminToken : {NoToken},
   requireAdmin : {FALSE}, rateLimited : {FALSE}]

NextCapacity ==
  \/ \E c \in Conn, j \in CapacityRequests :
       Join(c, j.username, j.room, j.adminToken, j.requireAdmin, j.rateLimited)
  \/ \E c \in Conn : Disconnect(c)

SpecCapacity == InitCapacity /\ [][NextCapacity]_vars

\* clients that join a room without admin,
\* leave it with leaveRoom and disconnect, with the 5 s removal marks
LeaveRequests ==
  [username : {S_al, S_bo}, room : {S_r1, S_LOC1}, adminToken : {NoToken},
   requireAdmin : {FALSE}, rateLimited : {FALSE}]

NextLeave ==
  \/ \E c \in Conn, j \in LeaveRequests :
       Join(c, j.username, j.room, j.adminToken, j.requireAdmin, j.rateLimited)
  \/ \E c \in Conn : LeaveRoom(c)
  \/ \E c \in Conn : Disconnect(c)
  \/ \E c \in Conn : RemovalTimerExpires(c)
  \/ \E room \in Rooms : CleanupTimerExpires(room)

SpecLeave == Init /\ [][NextLeave]_vars

(***************************************************************************)
(* What the claims observe.                                                *)
(***************************************************************************)
\* the clients of SpecLeave with leaveRoom and disconnect taken in two steps,
\* so that the second event can arrive while the first waits for removeUser
NextLeaveRace ==
  \/ \E c \in Conn, j \in LeaveRequests :
       Join(c, j.username, j.room, j.adminToken, j.requireAdmin, j.rateLimited)
  \/ \E c \in Conn : LeaveRoomBegins(c)
  \/ \E c \in Conn : DisconnectBegins(c)
  \/ \E c \in Conn, op \in {"leaveRoom", "disconnect"} : RemovalCompletes(c, op)
  \/ \E c \in Conn : RemovalTimerExpires(c)
  \/ \E room \in Rooms : CleanupTimerExpires(room)

SpecLeaveRace == Init /\ [][NextLeaveRace]_vars

\* socket.on('sendMessage')
SendMessage(c, message, rateLimited) ==
  /\ sock[c] = "open"
  /\ Apply(sendMessageHandler(World, c, message, rateLimited))
  /\ UNCHANGED <<sock, redisConnected, recentlyRemovedUsers, removalTimers, inFlight>>

\* rooms that empty, wait out the grace period, and are joined again or torn
\* down, with messages sent in between
TeardownRequests ==
  [username : {S_al, S_bo}, room : {S_r1}, adminToken : {NoToken} \cup Tokens,
   requireAdmin : BOOLEAN, rateLimited : {FALSE}]
NextTeardown ==
  \/ \E c \in Conn, j \in TeardownRequests :
       Join(c, j.username, j.room, j.adminToken, j.requireAdmin, j.rateLimited)
  \/ \E c \in Conn, message \in MessageTexts : SendMessage(c, message, FALSE)
  \/ \E c \in Conn : SendMessage(c, T_lt, TRUE)
  \/ \E c \in Conn : LeaveRoom(c)
  \/ \E c \in Conn : Disconnect(c)
  \/ \E c \in Conn : RemovalTimerExpires(c)
  \/ \E room \in Rooms : CleanupTimerExpires(room)

SpecTeardown == Init /\ [][NextTeardown]_vars

\* setTimeout runs the callback of a timer that is not cleared: an armed
\* cleanup timer expires eventually
SpecTeardownLive ==
  SpecTeardown /\ \A room \in Rooms : WF_vars(CleanupTimerExpires(room))

\* the cleanup timer of a room expires on the store, and the store fails the
\* DEL of the room's messages
CleanupTimerExpiresClearFails(room) ==
  /\ redisConnected
  /\ roomCleanupTimers[room] = "armed"
  /\ SetWorld(cleanupExpiredClearFails(World, room))
  /\ UNCHANGED <<sock, redisConnected, inFlight, recentlyRemovedUsers, removalTimers,
                 nextToken>>

\* rooms with messages that empty and are torn down, the store failing the
\* DEL of the messages or not
NextTeardownFails ==
  \/ \E c \in Conn, j \in {k \in TeardownRequests : k.adminToken = NoToken} :
       Join(c, j.username, j.room, j.adminToken, j.requireAdmin, j.rateLimited)
  \/ \E c \in Conn : SendMessage(c, T_lt, FALSE)
  \/ \E c \in Conn : LeaveRoom(c)
  \/ \E c \in Conn : RemovalTimerExpires(c)
  \/ \E room \in Rooms : CleanupTimerExpires(room)
  \/ \E room \in Rooms : CleanupTimerExpiresClearFails(room)

SpecTeardownFails == Init /\ [][NextTeardownFails]_vars

\* the timer's callback up to the return of 'await getUsersInRoom(room)'
\* (lines 755-758); the handle stays in the Map while the callback runs
CleanupChecks(room) ==
  /\ redisConnected
  /\ roomCleanupTimers[room] = "armed"
  /\ inFlight.cleanup[room] = "none"
  /\ SetWorld([CleanStale(World, room) EXCEPT !.roomCleanupTimers[room] = "fired"])
  /\ inFlight' = [inFlight EXCEPT !.cleanup[room] =
                    IF getRoomCount(World, room) = 0 THEN "checked" ELSE "none"]
  /\ UNCHANGED <<sock, redisConnected, recentlyRemovedUsers, removalTimers, nextToken>>

\* the rest of the callback, after it found no user (lines 760-785): the
\* messages, the three keys, the fallback entry, and whatever handle the Map
\* holds for the room by then, which is not cleared
CleanupDeletes(room) ==
  /\ inFlight.cleanup[room] = "checked"
  /\ roomCleanupTimers[room] = "armed" => inFlight.lost[room] < MaxLost
  /\ SetWorld([World EXCEPT !.rMessages[room] = <<>>, !.rMeta[room] = NoMeta,
                            !.rRoomUsers[room] = {}, !.rPending[room] = EmptyBag,
                            !.inMemoryRooms[room] = None,
                            !.roomCleanupTimers[room] = "none"])
  /\ inFlight' = [inFlight EXCEPT !.cleanup[room] = "none",
                                  !.lost[room] = IF roomCleanupTimers[room] = "armed"
                                                   THEN @ + 1 ELSE @]
  /\ UNCHANGED <<sock, redisConnected, recentlyRemovedUsers, removalTimers, nextToken>>

\* on the store the callback waits for Redis between its check and its
\* deletions, and the socket events of the clients are served meanwhile; on
\* the fallback nothing it awaits leaves the microtask queue
NextTeardownRace ==
  \/ \E c \in Conn, j \in LeaveRequests :
       Join(c, j.username, j.room, j.adminToken, j.requireAdmin, j.rateLimited)
  \/ \E c \in Conn : Disconnect(c)
  \/ \E room \in Rooms : CleanupChecks(room)
  \/ \E room \in Rooms : CleanupDeletes(room)
  \/ \E room \in Rooms : ~redisConnected /\ CleanupTimerExpires(room)

SpecTeardownRace == Init /\ [][NextTeardownRace]_vars

\* a cleanup timer whose handle the Map has lost expires: the same callback
\* (lines 755-782), which at its end deletes the room's entry of the Map
LostTimerExpires(room) ==
  /\ inFlight.lost[room] > 0
  /\ IF getRoomCount(World, room) = 0
       THEN /\ SetWorld(cleanupExpired(World, room))
            /\ inFlight' = [inFlight EXCEPT !.lost[room] =
                              IF roomCleanupTimers[room] = "armed" THEN @ ELSE @ - 1]
       ELSE /\ SetWorld(CleanStale(World, room))
            /\ inFlight' = [inFlight EXCEPT !.lost[room] = @ - 1]
  /\ UNCHANGED <<sock, redisConnected, recentlyRemovedUsers, removalTimers, nextToken>>

\* clients joining and leaving rooms, with leaveRoom, while the callbacks of
\* the cleanup timers wait for the store
NextTimerRace ==
  \/ \E c \in Conn, j \in LeaveRequests :
       Join(c, j.username, j.room, j.adminToken, j.requireAdmin, j.rateLimited)
  \/ \E c \in Conn : LeaveRoom(c)
  \/ \E c \in Conn : RemovalTimerExpires(c)
  \/ \E room \in Rooms : CleanupChecks(room)
  \/ \E room \in Rooms : CleanupDeletes(room)
  \/ \E room \in Rooms : LostTimerExpires(room)
  \/ \E room \in Rooms : ~redisConnected /\ CleanupTimerExpires(room)

SpecTimerRace == Init /\ [][NextTimerRace]_vars

\* the cleanup timers of a room that are running: the one whose handle the Map
\* holds, and those it has lost
LiveTimers(room) ==
  (IF roomCleanupTimers[room] = "armed" THEN 1 ELSE 0) + inFlight.lost[room]

\* every socket id connected, on the store: the joins of several clients reach
\* Redis interleaved
InitAddRace ==
  /\ redisConnected = TRUE
  /\ sock = [c \in Conn |-> "open"]
  /\ InitStores

\* socket.on('join') up to the point in addUser where the capacity check and
\* the username check have passed (userManagerRedis.js:71-86); nothing is
\* written yet
AddUserChecks(c, username, room, adminToken, requireAdmin) ==
  /\ redisConnected
  /\ sock[c] = "open"
  /\ inFlight.add[c] = None
  /\ joinHandler(World, c, username, room, adminToken, requireAdmin, nextToken,
                 FALSE).user # None
  /\ SetWorld(CleanStale(World, normRoom(sanitizeRoomId(room))))
  /\ inFlight' = [inFlight EXCEPT !.add[c] =
                    [username |-> username, room |-> room, adminToken |-> adminToken,
                     requireAdmin |-> requireAdmin]]
  /\ UNCHANGED <<sock, redisConnected, recentlyRemovedUsers, removalTimers, nextToken>>

\* the rest of that join: addUser's writes (lines 88-160) and the handler from
\* addUser's return on (socketHandler.js:334-395)
AddUserWrites(c) ==
  /\ inFlight.add[c] # None
  /\ LET j == inFlight.add[c]
         room == normRoom(sanitizeRoomId(j.room))
         added == addUserRedisWrites(World, c, normName(sanitizeUsername(j.username)),
                                     room, j.adminToken, j.requireAdmin, nextToken)
         w1 == CleanStale(cancelRoomCleanup(added.w, room), room)
     IN  Apply(Outcome(w1, Reply("join", c, "ok", added.adminToken), {}, added.generated))
  /\ inFlight' = [inFlight EXCEPT !.add[c] = None]
  /\ UNCHANGED <<sock, redisConnected, recentlyRemovedUsers, removalTimers>>

NextAddRace ==
  \/ \E c \in Conn, j \in CapacityRequests :
       AddUserChecks(c, j.username, j.room, j.adminToken, j.requireAdmin)
  \/ \E c \in Conn : AddUserWrites(c)
  \/ \E c \in Conn : Disconnect(c)

SpecAddRace == InitAddRace /\ [][NextAddRace]_vars

\* the first joins of an admin-controlled room
AdminRaceRequests ==
  [username : {S_al, S_bo, S_cy}, room : {S_r1}, adminToken : {NoToken},
   requireAdmin : {TRUE}, rateLimited : {FALSE}]

\* the join whose checks have passed stores the user, adds it to the room's
\* set and reads the room's metadata (userManagerRedis.js:88-105); the answer
\* of hGetAll is kept until the handler goes on
AddUserReadsMeta(c) ==
  /\ inFlight.add[c] # None
  /\ DOMAIN inFlight.add[c] = {"username", "room", "adminToken", "requireAdmin"}
  /\ LET j == inFlight.add[c]
         room == normRoom(sanitizeRoomId(j.room))
     IN  /\ SetWorld([World EXCEPT
                        !.rUser[c] = [username |-> normName(sanitizeUsername(j.username)),
                                      room |-> room],
                        !.rRoomUsers[room] = @ \cup {c}])
         /\ inFlight' = [inFlight EXCEPT !.add[c] =
                           [username |-> j.username, room |-> j.room,
                            adminToken |-> j.adminToken,
                            requireAdmin |-> j.requireAdmin,
                            roomMeta |-> rMeta[room]]]
  /\ UNCHANGED <<sock, redisConnected, recentlyRemovedUsers, removalTimers, nextToken>>

\* the rest of that join: addUser's writes to the metadata (lines 107-155) and
\* the handler from addUser's return on (socketHandler.js:334-395); what the
\* client is told, in adminStatus and in the callback, is kept in its place
AddUserWritesMeta(c) ==
  /\ inFlight.add[c] # None
  /\ "roomMeta" \in DOMAIN inFlight.add[c]
  /\ LET j == inFlight.add[c]
         room == normRoom(sanitizeRoomId(j.room))
         added == addUserMetaWrites(World, c, room, j.adminToken, j.requireAdmin,
                                    nextToken, j.roomMeta)
         w1 == CleanStale(cancelRoomCleanup(added.w, room), room)
         adminSocketId == getRoomAdmin(w1, room)
         isUserAdmin == added.isAdmin \/ c = adminSocketId
     IN  /\ Apply(Outcome(w1, Reply("join", c, "ok", added.adminToken), {},
                          added.generated))
         /\ inFlight' = [inFlight EXCEPT !.add[c] =
                           [room |-> room, isAdmin |-> isUserAdmin,
                            adminToken |-> IF isUserAdmin THEN added.adminToken
                                           ELSE NoToken,
                            callbackToken |-> added.adminToken]]
  /\ UNCHANGED <<sock, redisConnected, recentlyRemovedUsers, removalTimers>>

\* on the store every call of addUser waits for Redis, and the join of another
\* client is served meanwhile
NextAdminRace ==
  \/ \E c \in Conn, j \in AdminRaceRequests :
       AddUserChecks(c, j.username, j.room, j.adminToken, j.requireAdmin)
  \/ \E c \in Conn : AddUserReadsMeta(c)
  \/ \E c \in Conn : AddUserWritesMeta(c)

SpecAdminRace == InitAddRace /\ [][NextAdminRace]_vars

\* the clients whose join was answered, and those told that they are admin
JoinAnswered(room) ==
  {c \in Conn : /\ inFlight.add[c] # None
                /\ "isAdmin" \in DOMAIN inFlight.add[c]
                /\ inFlight.add[c].room = room}
ToldAdmin(room) == {c \in JoinAnswered(room) : inFlight.add[c].isAdmin}

\* Date.now() at the next sendMessage: one more than the messages sent so far
Stamp == 1 + Cardinality(UNION {inFlight.msg[c].sent : c \in Conn})

\* the messageObj of sendMessage (socketHandler.js:699-704); its id is
\* `${socket.id}-${Date.now()}`
MessageObj(c, user, text) ==
  [id |-> <<c, Stamp>>, user |-> user.username, text |-> text, isEdited |-> FALSE]

\* updateMessage's map over the list it read (messageService.js:151-169)
updatedMessages(messagesJson, messageId, newText) ==
  [i \in 1..Len(messagesJson) |->
     IF messagesJson[i].id = messageId
       THEN [messagesJson[i] EXCEPT !.text = newText, !.isEdited = TRUE]
       ELSE messagesJson[i]]

\* deleteMessage's filter over the list it read (lines 215-231)
RECURSIVE filteredMessages(_, _)
filteredMessages(messagesJson, messageId) ==
  IF messagesJson = <<>> THEN <<>>
  ELSE IF Head(messagesJson).id = messageId
    THEN filteredMessages(Tail(messagesJson), messageId)
    ELSE <<Head(messagesJson)>> \o filteredMessages(Tail(messagesJson), messageId)

\* socket.on('sendMessage') up to the return of saveMessage's RPUSH
\* (socketHandler.js:656-708, messageService.js:51-75)
SaveMessagePushes(c) ==
  /\ redisConnected
  /\ sock[c] = "open"
  /\ inFlight.msg[c].op = "idle"
  /\ getUser(World, c) # None
  /\ Stamp <= MaxSent
  /\ LET user == getUser(World, c)
         m == MessageObj(c, user, sanitizeMessage(T_lt).sanitized)
     IN  /\ rMessages' = [rMessages EXCEPT ![user.room] = Append(@, m)]
         /\ inFlight' = [inFlight EXCEPT !.msg[c] =
                           [op |-> "pushed", room |-> user.room,
                            sent |-> @.sent \cup {m.id}, removed |-> @.removed,
                            calls |-> @.calls]]
  /\ UNCHANGED <<sock, redisConnected, rUser, rRoomUsers, rMeta, rPending,
                 inMemoryUsers, inMemoryRooms, roomCleanupTimers,
                 recentlyRemovedUsers, removalTimers, nextToken>>

\* the rest of saveMessage: LTRIM to the last MAX_MESSAGES_PER_ROOM (line 78)
SaveMessageTrims(c) ==
  /\ inFlight.msg[c].op = "pushed"
  /\ LET room == inFlight.msg[c].room
         n == Len(rMessages[room])
     IN  rMessages' = [rMessages EXCEPT ![room] =
                         IF n > MAX_MESSAGES_PER_ROOM
                           THEN SubSeq(@, n - MAX_MESSAGES_PER_ROOM + 1, n)
                           ELSE @]
  /\ inFlight' = [inFlight EXCEPT !.msg[c] =
                    [op |-> "idle", sent |-> @.sent, removed |-> @.removed,
                            calls |-> @.calls]]
  /\ UNCHANGED <<sock, redisConnected, rUser, rRoomUsers, rMeta, rPending,
                 inMemoryUsers, inMemoryRooms, roomCleanupTimers,
                 recentlyRemovedUsers, removalTimers, nextToken>>

\* socket.on('editMessage') up to the return of updateMessage's LRANGE, for a
\* message of the socket that is in the list (socketHandler.js:719-756,
\* messageService.js:136-175)
UpdateMessageReads(c, messageId) ==
  /\ redisConnected
  /\ sock[c] = "open"
  /\ inFlight.msg[c].op = "idle"
  /\ getUser(World, c) # None
  /\ inFlight.msg[c].calls < MaxReplaces
  /\ messageId[1] = c
  /\ LET room == getUser(World, c).room
         messagesJson == rMessages[room]
     IN  /\ \E i \in 1..Len(messagesJson) : messagesJson[i].id = messageId
         /\ inFlight' = [inFlight EXCEPT !.msg[c] =
                           [op |-> "read", room |-> room,
                            list |-> updatedMessages(messagesJson, messageId,
                                                     sanitizeMessage(T_lt).sanitized),
                            deletes |-> {},
                            sent |-> @.sent, removed |-> @.removed,
                            calls |-> @.calls + 1]]
  /\ UNCHANGED <<sock, redisConnected, rUser, rRoomUsers, rMeta, rPending, rMessages,
                 inMemoryUsers, inMemoryRooms, roomCleanupTimers,
                 recentlyRemovedUsers, removalTimers, nextToken>>

\* socket.on('deleteMessage') up to the return of deleteMessage's LRANGE
\* (socketHandler.js:777-793, messageService.js:200-240)
DeleteMessageReads(c, messageId) ==
  /\ redisConnected
  /\ sock[c] = "open"
  /\ inFlight.msg[c].op = "idle"
  /\ getUser(World, c) # None
  /\ inFlight.msg[c].calls < MaxReplaces
  /\ messageId[1] = c
  /\ LET room == getUser(World, c).room
         messagesJson == rMessages[room]
     IN  /\ \E i \in 1..Len(messagesJson) : messagesJson[i].id = messageId
         /\ inFlight' = [inFlight EXCEPT !.msg[c] =
                           [op |-> "read", room |-> room,
                            list |-> filteredMessages(messagesJson, messageId),
                            deletes |-> {messageId},
                            sent |-> @.sent, removed |-> @.removed,
                            calls |-> @.calls + 1]]
  /\ UNCHANGED <<sock, redisConnected, rUser, rRoomUsers, rMeta, rPending, rMessages,
                 inMemoryUsers, inMemoryRooms, roomCleanupTimers,
                 recentlyRemovedUsers, removalTimers, nextToken>>

\* updateMessage and deleteMessage: DEL of the key (lines 177, 243); with
\* nothing to push back the call is over
ReplaceDeletesKey(c) ==
  /\ inFlight.msg[c].op = "read"
  /\ rMessages' = [rMessages EXCEPT ![inFlight.msg[c].room] = <<>>]
  /\ inFlight' = [inFlight EXCEPT !.msg[c] =
                    IF @.list = <<>>
                      THEN [op |-> "idle", sent |-> @.sent,
                            removed |-> @.removed \cup @.deletes,
                            calls |-> @.calls]
                      ELSE [@ EXCEPT !.op = "deleted"]]
  /\ UNCHANGED <<sock, redisConnected, rUser, rRoomUsers, rMeta, rPending,
                 inMemoryUsers, inMemoryRooms, roomCleanupTimers,
                 recentlyRemovedUsers, removalTimers, nextToken>>

\* updateMessage and deleteMessage: RPUSH of the list that was read (lines
\* 179, 245)
ReplacePushes(c) ==
  /\ inFlight.msg[c].op = "deleted"
  /\ rMessages' = [rMessages EXCEPT ![inFlight.msg[c].room] = @ \o inFlight.msg[c].list]
  /\ inFlight' = [inFlight EXCEPT !.msg[c] =
                    [op |-> "idle", sent |-> @.sent,
                     removed |-> @.removed \cup @.deletes,
                            calls |-> @.calls]]
  /\ UNCHANGED <<sock, redisConnected, rUser, rRoomUsers, rMeta, rPending,
                 inMemoryUsers, inMemoryRooms, roomCleanupTimers,
                 recentlyRemovedUsers, removalTimers, nextToken>>

\* the members of a room sending, editing and deleting messages; every call of
\* the message service waits for Redis between its commands, and the events of
\* other clients are served meanwhile
NextMessageRace ==
  \/ \E c \in Conn, j \in LeaveRequests :
       Join(c, j.username, j.room, j.adminToken, j.requireAdmin, j.rateLimited)
  \/ \E c \in Conn : SaveMessagePushes(c)
  \/ \E c \in Conn : SaveMessageTrims(c)
  \/ \E c \in Conn : \E messageId \in inFlight.msg[c].sent :
       UpdateMessageReads(c, messageId)
  \/ \E c \in Conn : \E messageId \in inFlight.msg[c].sent :
       DeleteMessageReads(c, messageId)
  \/ \E c \in Conn : ReplaceDeletesKey(c)
  \/ \E c \in Conn : ReplacePushes(c)

SpecMessageRace == Init /\ [][NextMessageRace]_vars

\* no call of the message service is under way
MessagesIdle == \A c \in Conn : inFlight.msg[c].op = "idle"

\* the ids of the messages in the history of a room, in its order
HistoryIds(room) == [i \in 1..Len(rMessages[room]) |-> rMessages[room][i].id]

RATE_LIMITS ==
  [message |-> [maxRequests |-> MESSAGE_MAX_REQUESTS, windowMs |-> MESSAGE_WINDOW,
                blockDurationMs |-> MESSAGE_BLOCK],
   join |-> [maxRequests |-> JOIN_MAX_REQUESTS, windowMs |-> JOIN_WINDOW,
             blockDurationMs |-> JOIN_BLOCK]]

\* a limiter that turns the call at the limit down without starting a block
checkRateLimit_noBlock(socketLimits, actionType, now) ==
  LET config == RATE_LIMITS[actionType]
      initial == IF socketLimits[actionType] = None
                   THEN [count |-> 0, resetTime |-> now + config.windowMs,
                         blockedUntil |-> 0]
                   ELSE socketLimits[actionType]
      limitData == IF now > initial.resetTime
                     THEN [count |-> 0, resetTime |-> now + config.windowMs,
                           blockedUntil |-> 0]
                     ELSE initial
  IN  IF initial.blockedUntil > now
        THEN [allowed |-> FALSE, limits |-> [socketLimits EXCEPT ![actionType] = initial]]
      ELSE IF limitData.count >= config.maxRequests
        THEN [allowed |-> FALSE, limits |-> [socketLimits EXCEPT ![actionType] = limitData]]
      ELSE [allowed |-> TRUE,
            limits |-> [socketLimits EXCEPT ![actionType] =
                          [limitData EXCEPT !.count = @ + 1]]]

\* checkRateLimit (lines 180-239) on the entry of one socket: the verdict and
\* the entry afterwards
checkRateLimit(socketLimits, actionType, now) ==
  LET config == RATE_LIMITS[actionType]
      initial == IF socketLimits[actionType] = None
                   THEN [count |-> 0, resetTime |-> now + config.windowMs,
                         blockedUntil |-> 0]
                   ELSE socketLimits[actionType]
      limitData == IF now > initial.resetTime
                     THEN [count |-> 0, resetTime |-> now + config.windowMs,
                           blockedUntil |-> 0]
                     ELSE initial
  IN  IF initial.blockedUntil > now
        THEN [allowed |-> FALSE, limits |-> [socketLimits EXCEPT ![actionType] = initial]]
      ELSE IF limitData.count >= config.maxRequests
        THEN [allowed |-> FALSE,
              limits |-> [socketLimits EXCEPT ![actionType] =
                            [limitData EXCEPT !.blockedUntil = now + config.blockDurationMs]]]
      ELSE [allowed |-> TRUE,
            limits |-> [socketLimits EXCEPT ![actionType] =
                          [limitData EXCEPT !.count = @ + 1]]]

\* socket.on('join') with the verdict of checkRateLimit (lines 257-264)
JoinLimited(c, username, room, adminToken, requireAdmin) ==
  /\ sock[c] = "open"
  /\ LET checked == checkRateLimit(inFlight.limits[c], "join", inFlight.now)
         o == joinHandler(World, c, username, room, adminToken, requireAdmin,
                          nextToken, ~checked.allowed)
     IN  /\ o.reply.result = "pending" =>
              pendingCount(World, sanitizeRoomId(room)) < MaxPending
         /\ Apply(o)
         /\ inFlight' = [inFlight EXCEPT !.limits[c] = checked.limits]
  /\ UNCHANGED <<sock, redisConnected, recentlyRemovedUsers, removalTimers>>

\* socket.on('sendMessage') with the verdict of checkRateLimit (lines 656-663)
SendMessageLimited(c, message) ==
  /\ sock[c] = "open"
  /\ LET checked == checkRateLimit(inFlight.limits[c], "message", inFlight.now)
     IN  /\ Apply(sendMessageHandler(World, c, message, ~checked.allowed))
         /\ inFlight' = [inFlight EXCEPT !.limits[c] = checked.limits]
  /\ UNCHANGED <<sock, redisConnected, recentlyRemovedUsers, removalTimers>>

\* time passes
Tick ==
  /\ inFlight.now < MaxNow
  /\ inFlight' = [inFlight EXCEPT !.now = @ + 1]
  /\ UNCHANGED <<sock, redisConnected, rUser, rRoomUsers, rMeta, rPending, rMessages,
                 inMemoryUsers, inMemoryRooms, roomCleanupTimers,
                 recentlyRemovedUsers, removalTimers, nextToken>>

\* clients joining and sending under the rate limiter, and disconnecting
RateLimitRequests ==
  [username : {S_al}, room : {S_r1}, adminToken : {NoToken},
   requireAdmin : {FALSE}, rateLimited : {FALSE}]
NextRateLimit ==
  \/ \E c \in 1..MaxClients, j \in RateLimitRequests :
       JoinLimited(c, j.username, j.room, j.adminToken, j.requireAdmin)
  \/ SendMessageLimited(1, T_lt)
  \/ \E c \in 1..MaxClients : Disconnect(c)
  \/ Tick

SpecRateLimit == Init /\ [][NextRateLimit]_vars

\* the clients around one admin-controlled room: joins, requests, leaveRoom
\* (which keeps the socket open), kicks, disconnects and the timers
KickRequests ==
  [username : {S_al, S_bo}, room : {S_r1}, adminToken : {NoToken},
   requireAdmin : {TRUE}, rateLimited : {FALSE}]
NextKick ==
  \/ \E c \in Conn, j \in KickRequests :
       Join(c, j.username, j.room, j.adminToken, j.requireAdmin, j.rateLimited)
  \/ \E c \in Conn, p \in Conn : ApproveJoin(c, p, S_r1)
  \/ \E c \in Conn, t \in Conn : KickUser(c, t, S_R1)
  \/ \E c \in Conn : LeaveRoom(c)
  \/ \E c \in Conn : Disconnect(c)
  \/ \E c \in Conn : RemovalTimerExpires(c)
  \/ \E room \in Rooms : CleanupTimerExpires(room)

SpecKick == Init /\ [][NextKick]_vars

\* socket.on('join') with one store call of addUser throwing; the handler's own
\* reads before addUser are answered
JoinStoreFails(c, username, room, adminToken, requireAdmin, failAt) ==
  /\ redisConnected
  /\ sock[c] = "open"
  /\ joinHandler(World, c, username, room, adminToken, requireAdmin, nextToken,
                 FALSE).reply.result \in {"ok", E_FULL, E_TAKEN}
  /\ LET sanitizedRoom == sanitizeRoomId(room)
         r == addUserStoreFails(CleanStale(World, normRoom(sanitizedRoom)), c,
                                sanitizeUsername(username), sanitizedRoom, adminToken,
                                requireAdmin, nextToken, failAt)
     IN  /\ nextToken + r.tokens <= MaxTokens + 1
         /\ nextToken' = nextToken + r.tokens
         /\ SetWorld(IF r.added.error = ""
                       THEN CleanStale(cancelRoomCleanup(r.added.w, sanitizedRoom),
                                       normRoom(sanitizedRoom))
                       ELSE r.added.w)
  /\ UNCHANGED <<sock, redisConnected, recentlyRemovedUsers, removalTimers, inFlight>>

\* socket.on('disconnect') with one store call of removeUser throwing
DisconnectStoreFails(c, failAt) ==
  /\ redisConnected
  /\ sock[c] = "open"
  /\ c \notin recentlyRemovedUsers
  /\ sock' = [sock EXCEPT ![c] = "closed"]
  /\ LET removed == removeUserStoreFails(World, c, failAt)
     IN  \E o \in (IF removed.user = None
                     THEN {Outcome(removed.w, Reply("disconnect", c, "no user", NoToken),
                                   {}, FALSE)}
                     ELSE handleUserLeaving(removed.w, c, removed.user, "disconnect",
                                            nextToken)) : Apply(o)
  /\ recentlyRemovedUsers' = recentlyRemovedUsers \cup {c}
  /\ removalTimers' = removalTimers \cup {c}
  /\ inFlight' = [inFlight EXCEPT !.limits[c] = NoLimits]
  /\ UNCHANGED redisConnected

\* the client's 'error' and 'end' events clear the connected flag, 'ready'
\* sets it; the store keeps its keys meanwhile
StoreDown ==
  /\ redisConnected
  /\ redisConnected' = FALSE
  /\ UNCHANGED <<sock, rUser, rRoomUsers, rMeta, rPending, rMessages, inMemoryUsers,
                 inMemoryRooms, roomCleanupTimers, recentlyRemovedUsers, removalTimers,
                 nextToken, inFlight>>

StoreUp ==
  /\ ~redisConnected
  /\ redisConnected' = TRUE
  /\ UNCHANGED <<sock, rUser, rRoomUsers, rMeta, rPending, rMessages, inMemoryUsers,
                 inMemoryRooms, roomCleanupTimers, recentlyRemovedUsers, removalTimers,
                 nextToken, inFlight>>

\* clients joining and leaving one room while the store comes and goes
StoreRequests ==
  [username : {S_al, S_bo}, room : {S_r1}, adminToken : {NoToken},
   requireAdmin : {FALSE}, rateLimited : {FALSE}]
NextStore ==
  \/ \E c \in Conn, j \in StoreRequests :
       Join(c, j.username, j.room, j.adminToken, j.requireAdmin, j.rateLimited)
  \/ \E c \in Conn, j \in StoreRequests, failAt \in AddUserFailPoints :
       JoinStoreFails(c, j.username, j.room, j.adminToken, j.requireAdmin, failAt)
  \/ \E c \in Conn : Disconnect(c)
  \/ \E c \in Conn, failAt \in RemoveUserFailPoints : DisconnectStoreFails(c, failAt)
  \/ \E room \in Rooms : CleanupTimerExpires(room)
  \/ StoreDown
  \/ StoreUp

SpecStore == Init /\ [][NextStore]_vars

\* the clients around one admin-controlled room while the store comes and
\* goes: joins, requests and approvals, leaveRoom and the cleanup timer; every
\* client keeps to one username
OwnName == <<S_al, S_bo, S_al>>
NextStoreApproval ==
  \/ \E c \in Conn : \E j \in {k \in KickRequests : k.username = OwnName[c]} :
       Join(c, j.username, j.room, j.adminToken, j.requireAdmin, j.rateLimited)
  \/ \E c \in Conn, p \in Conn : ApproveJoin(c, p, S_r1)
  \/ \E c \in Conn : LeaveRoom(c)
  \/ \E room \in Rooms : CleanupTimerExpires(room)
  \/ StoreDown
  \/ StoreUp

SpecStoreApproval == Init /\ [][NextStoreApproval]_vars

\* the socket ids listed as users of a room
MemberIds(w, room) == {u.id : u \in getUsersInRoom(w, room)}

\* the session getUser finds for every socket id
Sessions(w) == [c \in Conn |-> getUser(w, c)]

\* the users getUsersInRoom lists for every room
Membership(w) == [r \in Rooms |-> getUsersInRoom(w, r)]

\* the pending list of a room as a bag of entries
PendingBag(w, room) ==
  LET pending == IF w.inMemoryRooms[room] = None THEN <<>>
                 ELSE w.inMemoryRooms[room].pending
      entries == {pending[i] : i \in 1..Len(pending)}
  IN  IF redisConnected THEN w.rPending[room]
      ELSE [e \in entries |->
              Cardinality({i \in 1..Len(pending) : pending[i] = e})]

PendingLists(w) == [r \in Rooms |-> PendingBag(w, r)]

\* the room's admin socket id and admin token
AdminOf(w) == [r \in Rooms |-> <<getRoomAdmin(w, r), getRoomAdminToken(w, r)>>]

\* the join requests that pass the rate limiter and the validation
AdmittedRequests ==
  {j \in JoinRequests : ~j.rateLimited /\ joinValidation(j.username, j.room) = ""}

(***************************************************************************)
(* C1.  Capacity.                                                          *)
(***************************************************************************)
\* C1: in every reachable state every room has at most capacity(roomId)
\* members, whichever store serves the requests.  Stated for the distinct
\* socket ids listed as users of the room.
C1_CapacityRespected ==
  \A room \in Rooms : Cardinality(MemberIds(World, room)) <= Capacity(room)

(***************************************************************************)
(* C3.  One session per connection.                                        *)
(***************************************************************************)
\* C3: no socket id is listed as a user of two rooms at once, nor recorded
\* twice: an addUser for a socket id that has a session evicts that session.
C3_SingleSession ==
  \A c \in Conn :
    /\ Cardinality({room \in Rooms : c \in MemberIds(World, room)}) <= 1
    /\ Cardinality({i \in 1..Len(inMemoryUsers) : inMemoryUsers[i].id = c}) <= 1

(***************************************************************************)
(* C2.  Username uniqueness.                                               *)
(***************************************************************************)
\* C2: in every reachable state no two users listed for the same room have the
\* same normalized username.
C2_UniqueUsernames ==
  \A room \in Rooms :
    \A u, v \in getUsersInRoom(World, room) : u.username = v.username => u = v

(***************************************************************************)
(* C4.  The admin of an admin-controlled room.                             *)
(***************************************************************************)
\* C4 (as claimed): every room whose requireAdmin flag is true and which has at
\* least one member has a non-null adminSocketId that is the socket id of a
\* current member of the room.
C4_AdminIsMember ==
  \A room \in Rooms :
    (isRoomAdminRequired(World, room) /\ MemberIds(World, room) # {}) =>
      /\ getRoomAdmin(World, room) # NoConn
      /\ getRoomAdmin(World, room) \in MemberIds(World, room)

\* C4 (amended): every room whose requireAdmin flag is true has a non-null
\* adminSocketId and a non-null adminToken; the socket id is the one that
\* created the room or last joined with the token, member of the room or not.
C4_AdminRecorded ==
  \A room \in Rooms :
    isRoomAdminRequired(World, room) =>
      /\ getRoomAdmin(World, room) # NoConn
      /\ getRoomAdminToken(World, room) # NoToken

\* an admin-controlled room with members whose admin socket is not among them
C4_AdminAbsent ==
  \E room \in Rooms :
    /\ isRoomAdminRequired(World, room)
    /\ MemberIds(World, room) # {}
    /\ getRoomAdmin(World, room) # NoConn
    /\ getRoomAdmin(World, room) \notin MemberIds(World, room)

(***************************************************************************)
(* C5.  The approval gate of join.                                         *)
(***************************************************************************)
\* C5: a join that passed the rate limiter and the validation is parked in the
\* pending list (answered pending, sessions and members unchanged) if and only
\* if the room has an admin and at least one member, is not a LOC_ room, has
\* requireAdmin true, and the token sent differs from the room's token; in
\* every other case the join is what addUser makes of it.
C5_ApprovalGate ==
  \A c \in {d \in Conn : sock[d] = "open"}, j \in AdmittedRequests :
    LET room == sanitizeRoomId(j.room)
        name == sanitizeUsername(j.username)
        o == joinHandler(World, c, j.username, j.room, j.adminToken, j.requireAdmin,
                         nextToken, FALSE)
        gate == /\ getRoomAdmin(World, room) # NoConn
                /\ MemberIds(World, room) # {}
                /\ ~startsWith(room, LOC_PREFIX)
                /\ isRoomAdminRequired(World, room)
                /\ j.adminToken # getRoomAdminToken(World, room)
        added == addUser(World, c, name, room, j.adminToken, j.requireAdmin, nextToken)
    IN  /\ (o.reply.result = "pending") <=> gate
        /\ gate =>
             /\ Sessions(o.w) = Sessions(World)
             /\ Membership(o.w) = Membership(World)
             /\ AdminOf(o.w) = AdminOf(World)
             /\ PendingBag(o.w, room) =
                  PendingBag(World, room) (+) SetToBag({PendingUser(c, name)})
        /\ ~gate =>
             /\ o.reply.result = IF added.error = "" THEN "ok" ELSE added.error
             /\ Sessions(o.w) = Sessions(added.w)
             /\ Membership(o.w) = Membership(added.w)
             /\ AdminOf(o.w) = AdminOf(added.w)
             /\ PendingLists(o.w) = PendingLists(World)

\* a join has been parked: some room has a pending request
C5_RequestParked ==
  \E room \in Rooms : BagCardinality(PendingBag(World, room)) > 0

(***************************************************************************)
(* C6.  approveJoin.                                                       *)
(***************************************************************************)
\* C6: when approveJoin succeeds, one pending entry of the approved socket is
\* removed from the list, the socket is listed as a user of the room under the
\* entry's username, the user record has isAdmin false, and the room's
\* adminSocketId and adminToken are what they were.
C6_ApprovalAddsMember ==
  \A c \in Conn, p \in Conn, room \in RawRooms :
    \A o \in approveJoinHandler(World, c, p, room) :
      o.reply.result = "ok" =>
        LET r == normRoom(room)
        IN  /\ \E e \in BagToSet(PendingBag(World, r)) :
                 /\ e.socketId = p
                 /\ PendingBag(o.w, r) = PendingBag(World, r) (-) SetToBag({e})
                 /\ [id |-> p, username |-> normName(e.username), room |-> r]
                      \in getUsersInRoom(o.w, r)
            /\ getRoomAdmin(World, r) = c
            /\ o.user # None
            /\ o.user.id = p
            /\ o.user.isAdmin = FALSE
            /\ AdminOf(o.w) = AdminOf(World)

\* the admin of a room can approve a pending request, and the approval succeeds
C6_ApprovalSucceeds ==
  \E c \in Conn, p \in Conn, room \in RawRooms :
    /\ sock[c] = "open"
    /\ \E o \in approveJoinHandler(World, c, p, room) : o.reply.result = "ok"

(***************************************************************************)
(* C7.  rejectJoin.                                                        *)
(***************************************************************************)
\* C7: when rejectJoin succeeds, one pending entry of the rejected socket is
\* removed from the list, nobody is added to the users of any room, and the
\* rejected socket is sent joinRejected with the admin's reason, or with the
\* default denial message when no reason was given.
C7_RejectionRemovesRequest ==
  \A c \in Conn, p \in Conn, room \in RawRooms, reason \in RejectReasons :
    \A o \in rejectJoinHandler(World, c, p, room, reason) :
      o.reply.result = "ok" =>
        LET r == normRoom(room)
        IN  /\ \E e \in BagToSet(PendingBag(World, r)) :
                 /\ e.socketId = p
                 /\ PendingBag(o.w, r) = PendingBag(World, r) (-) SetToBag({e})
            /\ getRoomAdmin(World, r) = c
            /\ Sessions(o.w) = Sessions(World)
            /\ Membership(o.w) = Membership(World)
            /\ \E ev \in o.emitted :
                 /\ ev.to = p
                 /\ ev.ev = "joinRejected"
                 /\ ev.reason = IF reason = "" THEN DEFAULT_REJECT_REASON ELSE reason

\* the admin of a room can reject a pending request
C7_RejectionSucceeds ==
  \E c \in Conn, p \in Conn, room \in RawRooms, reason \in RejectReasons :
    /\ sock[c] = "open"
    /\ \E o \in rejectJoinHandler(World, c, p, room, reason) : o.reply.result = "ok"

(***************************************************************************)
(* C8.  Only the admin approves, rejects and kicks.                        *)
(***************************************************************************)
\* C8 (as claimed): isRoomAdmin holds exactly of the room's adminSocketId, and
\* approveJoin, rejectJoin and kickUser sent by any other socket are answered
\* with the only-the-admin error and change nothing.
C8_OnlyAdminError ==
  \A c \in Conn, p \in Conn, room \in RawRooms :
    /\ isRoomAdmin(World, c, room) <=> getRoomAdmin(World, room) = c
    /\ getRoomAdmin(World, room) # c =>
         /\ \A o \in approveJoinHandler(World, c, p, room) :
              o.w = World /\ o.reply.result = E_ONLY_ADMIN_APPROVE
         /\ \A reason \in RejectReasons :
              \A o \in rejectJoinHandler(World, c, p, room, reason) :
                o.w = World /\ o.reply.result = E_ONLY_ADMIN_REJECT
         /\ kickUserHandler(World, c, p, room).w = World
         /\ kickUserHandler(World, c, p, room).reply.result = E_ONLY_ADMIN_KICK

\* C8 (amended): isRoomAdmin holds exactly of the room's adminSocketId, and
\* approveJoin, rejectJoin and kickUser sent by any other socket change nothing
\* and emit nothing; kickUser is answered with the only-the-admin error, and so
\* are approveJoin and rejectJoin when the sender has a session, but a sender
\* without a session is answered 'You are not in a room'.
C8_NonAdminNoEffect ==
  \A c \in Conn, p \in Conn, room \in RawRooms :
    /\ isRoomAdmin(World, c, room) <=> getRoomAdmin(World, room) = c
    /\ getRoomAdmin(World, room) # c =>
         /\ \A o \in approveJoinHandler(World, c, p, room) :
              /\ o.w = World
              /\ o.emitted = {}
              /\ o.reply.result = IF getUser(World, c) = None THEN E_NOT_IN_ROOM
                                  ELSE E_ONLY_ADMIN_APPROVE
         /\ \A reason \in RejectReasons :
              \A o \in rejectJoinHandler(World, c, p, room, reason) :
                /\ o.w = World
                /\ o.emitted = {}
                /\ o.reply.result = IF getUser(World, c) = None THEN E_NOT_IN_ROOM
                                    ELSE E_ONLY_ADMIN_REJECT
         /\ kickUserHandler(World, c, p, room).w = World
         /\ kickUserHandler(World, c, p, room).emitted = {}
         /\ kickUserHandler(World, c, p, room).reply.result = E_ONLY_ADMIN_KICK

\* a connected socket with a session that is not the room's admin, and a
\* pending request in that room it could try to approve or reject
C8_NonAdminWithRequest ==
  \E c \in Conn, room \in RawRooms :
    /\ sock[c] = "open"
    /\ getUser(World, c) # None
    /\ getRoomAdmin(World, room) \notin {c, NoConn}
    /\ BagCardinality(PendingBag(World, normRoom(room))) > 0

(***************************************************************************)
(* C9.  kickUser.                                                          *)
(***************************************************************************)
\* C9: kickUser by the admin with the admin's own socket id as target is
\* answered 'You cannot kick yourself', with a target that has no session in
\* the room 'User not found in this room', both without a state change; a
\* successful kick leaves the target without session and out of the room's
\* users, leaves every other socket's session and listing as it was, and sends
\* 'kicked' to the target's socket.
C9_KickRemovesTarget ==
  \A c \in Conn, t \in Conn, room \in RawRooms :
    LET o == kickUserHandler(World, c, t, room)
        r == normRoom(room)
        target == getUser(World, t)
    IN  /\ (getRoomAdmin(World, room) = c /\ t = c) =>
             o.reply.result = E_KICK_SELF /\ o.w = World
        /\ (getRoomAdmin(World, room) = c /\ t # c
              /\ (target = None \/ target.room # r)) =>
             o.reply.result = E_USER_NOT_FOUND /\ o.w = World
        /\ o.reply.result = "ok" =>
             /\ getUser(o.w, t) = None
             /\ \A r2 \in Rooms : t \notin MemberIds(o.w, r2)
             /\ \A d \in Conn \ {t} : getUser(o.w, d) = getUser(World, d)
             /\ \A r2 \in Rooms :
                  {u \in getUsersInRoom(o.w, r2) : u.id # t} =
                    {u \in getUsersInRoom(World, r2) : u.id # t}
             /\ sock[t] = "open" =>
                  \E ev \in o.emitted : ev.to = t /\ ev.ev = "kicked"

(***************************************************************************)
(* C10.  Admin token continuity.                                           *)
(***************************************************************************)
\* what a join that presents the admin token of a room with requireAdmin gets,
\* if it is admitted: the joining socket is the room's admin, the room's token
\* and the token in the reply are the one presented, the user is an admin and
\* is told so
C10_ReturningAdminRecognised ==
  \A c \in {d \in Conn : sock[d] = "open"}, j \in AdmittedRequests :
    LET room == sanitizeRoomId(j.room)
        T == getRoomAdminToken(World, room)
        o == joinHandler(World, c, j.username, j.room, j.adminToken, j.requireAdmin,
                         nextToken, j.rateLimited)
    IN  (isRoomAdminRequired(World, room) /\ T # NoToken /\ j.adminToken = T
           /\ o.reply.result = "ok") =>
          /\ getRoomAdmin(o.w, room) = c
          /\ isRoomAdmin(o.w, c, room)
          /\ getRoomAdminToken(o.w, room) = T
          /\ o.reply.adminToken = T
          /\ o.user.isAdmin
          /\ ~o.generated
          /\ Event(c, "adminStatus", c, "", TRUE, T) \in o.emitted

\* a step that leaves a room with requireAdmin standing keeps its admin token,
\* and changes its admin only to a socket that joins presenting that token
C10_NoTransferInGap ==
  \A room \in Rooms :
    LET T == getRoomAdminToken(World, room)
    IN  (isRoomAdminRequired(World, room) /\ isRoomAdminRequired(World, room)') =>
          /\ getRoomAdminToken(World, room)' = T
          /\ getRoomAdmin(World, room)' # getRoomAdmin(World, room) =>
               \E c \in Conn, j \in AdmittedRequests :
                 /\ j.adminToken = T
                 /\ sanitizeRoomId(j.room) = room
                 /\ getRoomAdmin(World, room)' = c
                 /\ Join(c, j.username, j.room, j.adminToken, j.requireAdmin,
                         j.rateLimited)

C12_NoAdminWithoutLock ==
  \A room \in Rooms :
    getRoomAdmin(World, room) # NoConn => isRoomAdminRequired(World, room)

(***************************************************************************)
(* C13.  Who is told the admin token.                                      *)
(***************************************************************************)
\* C13: a handler hands out a non-null admin token (in the join callback or in
\* an adminStatus event) only to the socket whose call made or confirmed it
\* the admin of the room the token belongs to: the token goes to the caller of
\* a join that created the room with requireAdmin or presented that token, the
\* caller is then the room's admin, and no other callback or event of join,
\* approveJoin, rejectJoin, cancelJoinRequest, kickUser or the leave path
\* carries a token to a socket that is not the admin of the token's room.
C13_TokenOnlyToAdmin ==
  /\ \A c \in {d \in Conn : sock[d] = "open"}, j \in JoinRequests :
       LET room == normRoom(sanitizeRoomId(j.room))
           o == joinHandler(World, c, j.username, j.room, j.adminToken, j.requireAdmin,
                            nextToken, j.rateLimited)
           delivered == ({o.reply.adminToken} \cup {e.adminToken : e \in o.emitted})
                          \ {NoToken}
       IN  /\ \A e \in o.emitted : e.adminToken # NoToken => (e.to = c /\ e.isAdmin)
           /\ \A T \in delivered :
                /\ o.reply.result = "ok"
                /\ getRoomAdmin(o.w, room) = c
                /\ getRoomAdminToken(o.w, room) = T
                /\ o.user.isAdmin
                /\ \/ o.generated /\ getRoomAdmin(World, room) = NoConn /\ T = nextToken
                   \/ ~o.generated /\ j.adminToken = T
                        /\ getRoomAdminToken(World, room) = T
  /\ \A c \in Conn, p \in Conn, room \in RawRooms :
       LET others == approveJoinHandler(World, c, p, room)
                       \cup UNION {rejectJoinHandler(World, c, p, room, reason) :
                                     reason \in RejectReasons}
                       \cup cancelJoinRequestHandler(World, c, room)
                       \cup {kickUserHandler(World, c, p, room)}
                       \cup removeAndLeave(World, c, "disconnect", nextToken)
                       \cup removeAndLeave(World, c, "leaveRoom", nextToken)
       IN  \A o \in others :
             /\ o.reply.adminToken = NoToken
             /\ \A e \in o.emitted :
                  e.adminToken # NoToken =>
                    \E r \in Rooms : /\ getRoomAdmin(o.w, r) = e.to
                                     /\ getRoomAdminToken(o.w, r) = e.adminToken

\* a room with an admin token that an open socket can join both ways: with the
\* token, and it is told the token; without it, and it is told none
C13_TokenWithheld ==
  \E c \in Conn, j \in AdmittedRequests, k \in AdmittedRequests :
    LET room == normRoom(sanitizeRoomId(j.room))
        T == getRoomAdminToken(World, room)
        withToken == joinHandler(World, c, j.username, j.room, j.adminToken,
                                 j.requireAdmin, nextToken, j.rateLimited)
        without == joinHandler(World, c, k.username, k.room, k.adminToken,
                               k.requireAdmin, nextToken, k.rateLimited)
    IN  /\ sock[c] = "open"
        /\ T # NoToken
        /\ k.room = j.room
        /\ j.adminToken = T
        /\ k.adminToken # T
        /\ withToken.reply.result = "ok"
        /\ withToken.reply.adminToken = T
        /\ without.reply.result = "ok"
        /\ without.reply.adminToken = NoToken

(***************************************************************************)
(* C14.  leaveRoom and disconnect of one socket.                           *)
(***************************************************************************)
\* the session entries removeUser can find for a socket id
SessionEntries(w, c) ==
  IF redisConnected THEN IF w.rUser[c] # None THEN 1 ELSE 0
  ELSE Cardinality({i \in 1..Len(w.inMemoryUsers) : w.inMemoryUsers[i].id = c})

RoomMetadata(w, room) ==
  IF redisConnected
    THEN [exists |-> w.rMeta[room].createdAt, adminToken |-> w.rMeta[room].adminToken,
          requireAdmin |-> w.rMeta[room].requireAdmin]
    ELSE IF w.inMemoryRooms[room] = None
      THEN [exists |-> FALSE, adminToken |-> NoToken, requireAdmin |-> FALSE]
      ELSE [exists |-> TRUE, adminToken |-> w.inMemoryRooms[room].adminToken,
            requireAdmin |-> w.inMemoryRooms[room].requireAdmin]

\* C15 (join part): a join that succeeds while the room's teardown timer is
\* armed cancels the timer, leaves the room with a member, and keeps the room's
\* metadata (createdAt, adminToken, requireAdmin) and its message history.
C15_JoinCancelsTeardown ==
  \A c \in Conn, j \in TeardownRequests :
    LET room == normRoom(sanitizeRoomId(j.room))
        o == joinHandler(World, c, j.username, j.room, j.adminToken, j.requireAdmin,
                         nextToken, j.rateLimited)
    IN  (sock[c] = "open" /\ roomCleanupTimers[room] = "armed" /\ o.user # None) =>
          /\ o.w.roomCleanupTimers[room] = "none"
          /\ c \in MemberIds(o.w, room)
          /\ o.w.rMessages[room] = rMessages[room]
          /\ RoomMetadata(World, room).exists =>
               RoomMetadata(o.w, room) = RoomMetadata(World, room)

\* C15 (expiry part): no step deletes the metadata or the message history of a
\* room whose timer is not armed or that has a member; with the timer cancelled
\* by the join, the original expiry deletes nothing.
C15_NothingDeletedUnlessArmedAndEmpty ==
  \A room \in Rooms :
    (roomCleanupTimers[room] # "armed" \/ MemberIds(World, room) # {}) =>
      /\ RoomMetadata(World, room).exists =>
           RoomMetadata(World, room)' = RoomMetadata(World, room)
      /\ rMessages[room] # <<>> => rMessages'[room] # <<>>

\* C15: a member arriving during the grace period cancels the teardown; the
\* room, its metadata and its message history survive the original expiry.
C15_RejoinCancelsTeardown ==
  []C15_JoinCancelsTeardown /\ [][C15_NothingDeletedUnlessArmedAndEmpty]_vars

\* C15 witness: the room was created and emptied, its timer is armed, it holds
\* stored metadata and messages, and a client's join succeeds
C15_JoinDuringGrace ==
  \E c \in Conn, j \in TeardownRequests :
    LET room == normRoom(sanitizeRoomId(j.room))
        o == joinHandler(World, c, j.username, j.room, j.adminToken, j.requireAdmin,
                         nextToken, j.rateLimited)
    IN  /\ sock[c] = "open"
        /\ roomCleanupTimers[room] = "armed"
        /\ MemberIds(World, room) = {}
        /\ RoomMetadata(World, room).exists
        /\ redisConnected
        /\ rMessages[room] # <<>>
        /\ o.user # None

\* nothing of the room is left: no metadata, member set, pending queue, stored
\* message, fallback entry or timer
TornDown(w, room) ==
  /\ w.rMeta[room] = NoMeta
  /\ w.rRoomUsers[room] = {}
  /\ w.rPending[room] = EmptyBag
  /\ w.rMessages[room] = <<>>
  /\ w.inMemoryRooms[room] = None
  /\ w.roomCleanupTimers[room] = "none"

\* C16 (expiry step): the step in which the armed timer of an empty room goes
\* off without anybody having joined deletes the room's metadata, member set,
\* pending queue and, through the callback given to scheduleRoomCleanup, its
\* messages.
C16_ExpiryTearsDown ==
  \A room \in Rooms :
    ( /\ roomCleanupTimers[room] = "armed"
      /\ roomCleanupTimers'[room] # "armed"
      /\ MemberIds(World, room) = {}
      /\ MemberIds(World, room)' = {} ) => TornDown(World, room)'

C17_TeardownSparesMembers ==
  [][\A room \in Rooms :
       (inFlight.cleanup[room] = "checked" /\ inFlight'.cleanup[room] = "none") =>
         MemberIds(World, room) = {}]_vars

\* C17 (second half): a join that returned success is not erased: the room of
\* every session lists the session's socket and has its metadata.
C17_JoinNotErased ==
  \A c \in Conn :
    rUser[c] # None =>
      c \in rRoomUsers[rUser[c].room] /\ rMeta[rUser[c].room].createdAt

\* C18: concurrent joins for a room with one free slot do not both pass the
\* capacity check and both insert: once no addUser is in flight, the room has
\* at most its capacity of members.
C18_NoOverfillAfterRace ==
  (\A c \in Conn : inFlight.add[c] = None) =>
    \A room \in Rooms : Cardinality(rRoomUsers[room]) <= Capacity(room)

\* with every join one step, the store path keeps a room within its capacity
C18_StoreCapacityWithoutRace ==
  redisConnected => \A room \in Rooms : Cardinality(rRoomUsers[room]) <= Capacity(room)

\* C19: a pending queue never holds two entries with the same connection id.
C19_OnePendingEntryPerSocket ==
  \A room \in Rooms :
    /\ \A p \in BagToSet(rPending[room]) : CopiesIn(p, rPending[room]) <= 1
    /\ \A p, q \in BagToSet(rPending[room]) : p.socketId = q.socketId => p = q
    /\ inMemoryRooms[room] # None =>
         \A i, k \in 1..Len(inMemoryRooms[room].pending) :
           inMemoryRooms[room].pending[i].socketId
             = inMemoryRooms[room].pending[k].socketId => i = k

\* socket c has a request waiting in the room's pending queue
HasPendingEntry(w, room0, c) ==
  LET room == normRoom(room0)
  IN  IF redisConnected
        THEN \E p \in BagToSet(w.rPending[room]) : p.socketId = c
        ELSE /\ w.inMemoryRooms[room] # None
             /\ \E i \in 1..Len(w.inMemoryRooms[room].pending) :
                  w.inMemoryRooms[room].pending[i].socketId = c

\* C20: cancelJoinRequest answers success; from a socket with a request
\* waiting in the room it removes the request, so that approveJoin and
\* rejectJoin for that socket then answer 'Pending user not found' and admit
\* nobody; from a socket without one it changes nothing.
C20_CancelWithdraws ==
  \A c \in Conn, room \in RawRooms :
    \A o \in cancelJoinRequestHandler(World, c, room) :
      /\ o.reply.result = "ok"
      /\ ~HasPendingEntry(World, room, c) => o.w = World /\ o.emitted = {}
      /\ HasPendingEntry(World, room, c) =>
           /\ pendingCount(o.w, room) = pendingCount(World, room) - 1
           /\ ~HasPendingEntry(o.w, room, c)
           /\ \A a \in Conn :
                (getUser(o.w, a) # None /\ isRoomAdmin(o.w, a, room)) =>
                  /\ \A oa \in approveJoinHandler(o.w, a, c, room) :
                       oa.reply.result = E_PENDING_NOT_FOUND /\ oa.w = o.w
                  /\ \A orj \in rejectJoinHandler(o.w, a, c, room, "") :
                       orj.reply.result = E_PENDING_NOT_FOUND /\ orj.w = o.w

\* C20, where no socket has two requests waiting
C20_CancelWithdrawsSingleRequest ==
  C19_OnePendingEntryPerSocket => C20_CancelWithdraws

\* C21: approveJoin and rejectJoin sent by the room's admin for a socket that
\* has no request waiting in the room answer 'Pending user not found', change
\* no store (members, sessions, pending queue) and emit nothing.
C21_UnknownRequestNotFound ==
  \A a \in Conn, p \in Conn, room \in RawRooms :
    (getUser(World, a) # None /\ isRoomAdmin(World, a, room)
       /\ ~HasPendingEntry(World, room, p)) =>
      /\ \A o \in approveJoinHandler(World, a, p, room) :
           o.reply.result = E_PENDING_NOT_FOUND /\ o.w = World /\ o.emitted = {}
      /\ \A reason \in RejectReasons :
           \A o \in rejectJoinHandler(World, a, p, room, reason) :
             o.reply.result = E_PENDING_NOT_FOUND /\ o.w = World /\ o.emitted = {}

\* C21 witness: the admin is asked about a socket that has no request in its
\* room, while the request of another socket waits there
C21_StaleRequestId ==
  \E a \in Conn, p \in Conn, q \in Conn, room \in RawRooms :
    /\ getUser(World, a) # None /\ isRoomAdmin(World, a, room)
    /\ ~HasPendingEntry(World, room, p)
    /\ HasPendingEntry(World, room, q)
    /\ \E o \in approveJoinHandler(World, a, p, room) :
         o.reply.result = E_PENDING_NOT_FOUND

\* C22: when the addUser of approveJoin fails (username taken, room full), the
\* requester is sent joinRejected with that error as reason, and is afterwards
\* neither in the room's pending queue nor among its members.
C22_FailedApprovalRejects ==
  \A a \in Conn, p \in Conn, room \in RawRooms :
    \A o \in approveJoinHandler(World, a, p, room) :
      o.reply.result \in {E_TAKEN, E_FULL} =>
        /\ Event(p, "joinRejected", p, o.reply.result, FALSE, NoToken) \in o.emitted
        /\ ~HasPendingEntry(o.w, room, p)
        /\ p \notin MemberIds(o.w, normRoom(room))

\* C22 for a requester that is not a member of the room and has one request
\* waiting
C22_FailedApprovalRejectsOutsider ==
  C19_OnePendingEntryPerSocket =>
    \A a \in Conn, p \in Conn, room \in RawRooms :
      \A o \in approveJoinHandler(World, a, p, room) :
        (o.reply.result \in {E_TAKEN, E_FULL}
           /\ p \notin MemberIds(World, normRoom(room))) =>
          /\ Event(p, "joinRejected", p, o.reply.result, FALSE, NoToken) \in o.emitted
          /\ ~HasPendingEntry(o.w, room, p)
          /\ p \notin MemberIds(o.w, normRoom(room))

\* C23: whenever a room's membership drops to zero its pending queue is
\* emptied: a room without members has no request waiting.
C23_EmptyRoomNoPending ==
  \A room \in Rooms : MemberIds(World, room) = {} => pendingCount(World, room) = 0

\* C23 on the leave path: a leaveRoom or disconnect that takes the last member
\* out of a room leaves the room's pending queue empty
C23_LastLeaveClearsPending ==
  [][\A room \in Rooms :
       ( /\ MemberIds(World, room) # {}
         /\ MemberIds(World, room)' = {}
         /\ (sock' # sock \/ recentlyRemovedUsers' # recentlyRemovedUsers) ) =>
         pendingCount(World, room)' = 0]_vars

\* what addUser may touch: the sessions, each room's members (the ids of its
\* set that have a session), metadata and pending queue, the fallback's arrays
\* and the cleanup timers
DirectoryView(w) ==
  [sessions |-> w.rUser,
   members |-> [room \in Rooms |-> ValidIds(w, room)],
   meta |-> w.rMeta,
   pending |-> w.rPending,
   users |-> w.inMemoryUsers,
   rooms |-> w.inMemoryRooms,
   timers |-> w.roomCleanupTimers]

\* the arguments addUser is called with
AddUserNames == {S_al, S_bo, S_Al_sp, <<>>}
AddUserRooms == RawRooms \cup {<<>>}

C24_AddFailsFull ==
  \E id \in Conn, room \in RawRooms :
    /\ redisConnected
    /\ addUser(World, id, S_al, room, NoToken, FALSE, nextToken).error = E_FULL

\* the fallback holds a session of socket id with this name in this room
InFallback(w, id, username, room) ==
  \E i \in 1..Len(w.inMemoryUsers) :
    w.inMemoryUsers[i] = [id |-> id, username |-> normName(username),
                          room |-> normRoom(room)]

\* the answers of addUser, removeUser and getUser while the store is
\* disconnected are the fallback's
DisconnectedUsesFallback ==
  ~redisConnected =>
    \A id \in Conn :
      /\ removeUser(World, id) = removeUserInMemory(World, id)
      /\ getUser(World, id) = getUserInMemory(World, id)
      /\ \A username \in AddUserNames \ {<<>>}, room \in RawRooms,
            adminToken \in {NoToken} \cup Tokens, requireAdmin \in BOOLEAN :
           addUser(World, id, username, room, adminToken, requireAdmin, nextToken)
             = addUserInMemory(World, id, username, room, adminToken, requireAdmin,
                               nextToken)

\* with a store call throwing, removeUser and getUser answer what the fallback
\* holds
FailedReadsUseFallback ==
  \A id \in Conn : redisConnected =>
    /\ getUserStoreFails(World, id) = getUserInMemory(World, id)
    /\ \A failAt \in RemoveUserFailPoints :
         LET removed == removeUserStoreFails(World, id, failAt)
         IN  /\ removed.user = getUserInMemory(World, id)
             /\ removed.w.inMemoryUsers = removeUserInMemory(World, id).w.inMemoryUsers
             /\ removed.w.inMemoryRooms = removeUserInMemory(World, id).w.inMemoryRooms

\* C25 as stated: whatever store call of addUser fails, the error is none of
\* the store's and a successful answer is the fallback's: the user is in the
\* fallback's list.
C25_AnyFailureRunsFallback ==
  /\ DisconnectedUsesFallback
  /\ FailedReadsUseFallback
  /\ \A id \in Conn, username \in {S_al, S_bo, <<>>}, room \in {S_r1, S_LOC1, <<>>},
        adminToken \in {NoToken} \cup Tokens, requireAdmin \in BOOLEAN,
        failAt \in AddUserFailPoints :
       LET r == addUserStoreFails(World, id, username, room, adminToken, requireAdmin,
                                  nextToken, failAt).added
       IN  redisConnected =>
             /\ r.error \in {"", E_REQUIRED, E_FULL, E_TAKEN}
             /\ r.error = "" => InFallback(r.w, id, username, room)

\* C25 amended: no store failure reaches the caller as an error; when a call
\* of addUser's own try block throws, a successful answer is the fallback's;
\* when the read of the capacity check throws, getUsersInRoom absorbs it and
\* addUser goes on against the store with the fallback's count.
C25_FailureNeverSurfaces ==
  /\ DisconnectedUsesFallback
  /\ FailedReadsUseFallback
  /\ \A id \in Conn, username \in {S_al, S_bo, <<>>}, room \in {S_r1, S_LOC1, <<>>},
        adminToken \in {NoToken} \cup Tokens, requireAdmin \in BOOLEAN,
        failAt \in AddUserFailPoints :
       LET r == addUserStoreFails(World, id, username, room, adminToken, requireAdmin,
                                  nextToken, failAt).added
       IN  redisConnected =>
             /\ r.error \in {"", E_REQUIRED, E_FULL, E_TAKEN}
             /\ (r.error = "" /\ failAt # "capacity") =>
                  InFallback(r.w, id, username, room)
             /\ (r.error = "" /\ failAt = "capacity") =>
                  /\ r.w.rUser[id] = [username |-> normName(username),
                                      room |-> normRoom(room)]
                  /\ id \in r.w.rRoomUsers[normRoom(room)]
                  /\ r.w.inMemoryUsers = inMemoryUsers

\* C25 witness: the store is connected and a join whose sAdd threw has left
\* the socket's hash in the store and its session in the fallback
C25_JoinedThroughCatch ==
  \E c \in Conn :
    /\ redisConnected
    /\ rUser[c] # None
    /\ c \notin rRoomUsers[rUser[c].room]
    /\ getUserInMemory(World, c) # None

\* C26: a change of the store's availability causes no change of the
\* directory: every connection that getUser and getUsersInRoom showed before
\* the change is shown after it, and no other.
C26_AvailabilityChangeKeepsDirectory ==
  [][redisConnected' # redisConnected =>
       /\ \A c \in Conn : getUser(World, c)' = getUser(World, c)
       /\ \A room \in Rooms : MemberIds(World, room)' = MemberIds(World, room)]_vars

\* C26 (uniqueness): no two sockets hold sessions with the same username in
\* the same room, in the store and the fallback taken together
C26_UniqueAcrossStores ==
  \A c, d \in Conn :
    (c # d /\ rUser[c] # None /\ getUserInMemory(World, d) # None) =>
      ~ ( /\ rUser[c].username = getUserInMemory(World, d).username
          /\ rUser[c].room = getUserInMemory(World, d).room )

\* C27 (creation): the join that creates a room gives it requireAdmin exactly
\* when the joiner asked for it and the room is not a LOC_ room; a join into a
\* room that exists, members or not, leaves the flag as it is.
C27_JoinSetsFlagOnlyAtCreation ==
  \A c \in Conn, j \in JoinRequests :
    LET room == normRoom(sanitizeRoomId(j.room))
        o == joinHandler(World, c, j.username, j.room, j.adminToken, j.requireAdmin,
                         nextToken, j.rateLimited)
    IN  (sock[c] = "open" /\ o.user # None) =>
          IF RoomMetadata(World, room).exists
            THEN RoomMetadata(o.w, room).requireAdmin
                   = RoomMetadata(World, room).requireAdmin
            ELSE RoomMetadata(o.w, room).requireAdmin
                   = (j.requireAdmin /\ ~startsWith(room, LOC_PREFIX))

\* C27 (constancy): no step changes the flag of a room that exists before and
\* after the step.
C27_FlagConstant ==
  \A room \in Rooms :
    (RoomMetadata(World, room).exists /\ RoomMetadata(World, room)'.exists) =>
      RoomMetadata(World, room)'.requireAdmin = RoomMetadata(World, room).requireAdmin

\* C27: requireAdmin is fixed when the room is created and never changes while
\* the room exists.
C27_FlagFixedAtCreation ==
  []C27_JoinSetsFlagOnlyAtCreation /\ [][C27_FlagConstant]_vars

\* C27 witness: an emptied room without admin control waits for its teardown,
\* and the join of a client asking for admin control succeeds
C27_OtherFlagDuringGrace ==
  \E c \in Conn, j \in JoinRequests :
    LET room == normRoom(sanitizeRoomId(j.room))
        o == joinHandler(World, c, j.username, j.room, j.adminToken, j.requireAdmin,
                         nextToken, j.rateLimited)
    IN  /\ sock[c] = "open"
        /\ roomCleanupTimers[room] = "armed"
        /\ MemberIds(World, room) = {}
        /\ RoomMetadata(World, room).exists
        /\ ~RoomMetadata(World, room).requireAdmin
        /\ ~startsWith(room, LOC_PREFIX)
        /\ j.requireAdmin
        /\ o.user # None

\* C28: a room whose id starts with LOC_ never requires an admin, has neither
\* admin nor token, has no request waiting; no join into it is parked, made
\* admin or given a token, whatever token and requireAdmin the joiner sends.
C28_LocationRoomsAdminless ==
  \A room \in Rooms :
    startsWith(room, LOC_PREFIX) =>
      /\ ~isRoomAdminRequired(World, room)
      /\ getRoomAdmin(World, room) = NoConn
      /\ getRoomAdminToken(World, room) = NoToken
      /\ pendingCount(World, room) = 0
      /\ \A c \in Conn, j \in JoinRequests :
           normRoom(sanitizeRoomId(j.room)) = room =>
             LET o == joinHandler(World, c, j.username, j.room, j.adminToken,
                                  j.requireAdmin, nextToken, j.rateLimited)
             IN  /\ o.reply.result # "pending"
                 /\ o.reply.adminToken = NoToken
                 /\ ~o.generated
                 /\ o.user # None => ~o.user.isAdmin
                 /\ \A e \in o.emitted : ~e.isAdmin /\ e.adminToken = NoToken

\* C28 witness: a LOC_ room exists, and the join of a client that presents a
\* token and asks for admin control succeeds
C28_TokenAtLocationRoom ==
  \E c \in Conn, j \in JoinRequests :
    LET room == normRoom(sanitizeRoomId(j.room))
        o == joinHandler(World, c, j.username, j.room, j.adminToken, j.requireAdmin,
                         nextToken, j.rateLimited)
    IN  /\ sock[c] = "open"
        /\ startsWith(room, LOC_PREFIX)
        /\ RoomMetadata(World, room).exists
        /\ c \notin MemberIds(World, room)
        /\ j.adminToken # NoToken /\ j.requireAdmin
        /\ o.user # None


\* C29: after any successful addUser for a room, reached through join or
\* through approveJoin, on the store or on the fallback, no cleanup timer
\* remains armed for that room.
C29_AddLeavesNoTimer ==
  /\ \A c \in Conn, j \in JoinRequests :
       LET o == joinHandler(World, c, j.username, j.room, j.adminToken,
                            j.requireAdmin, nextToken, j.rateLimited)
       IN  (sock[c] = "open" /\ o.user # None) => o.w.roomCleanupTimers[o.user.room] # "armed"
  /\ \A a \in Conn, p \in Conn, room \in RawRooms :
       \A o \in approveJoinHandler(World, a, p, room) :
         (sock[a] = "open" /\ o.user # None) => o.w.roomCleanupTimers[o.user.room] # "armed"

\* C29 on the join path alone
C29_JoinLeavesNoTimer ==
  \A c \in Conn, j \in JoinRequests :
    LET o == joinHandler(World, c, j.username, j.room, j.adminToken,
                         j.requireAdmin, nextToken, j.rateLimited)
    IN  (sock[c] = "open" /\ o.user # None) => o.w.roomCleanupTimers[o.user.room] # "armed"


\* C30: when connections concurrently issue the first join of an unseen
\* non-location room with requireAdmin true, exactly one of them is reported as
\* admin and holds a token, that token is the room's stored adminToken and
\* adminSocketId is that connection; the others are not told they are admin.
C30_OneAdminAfterRace ==
  \A room \in Rooms :
    /\ Cardinality(ToldAdmin(room)) <= 1
    /\ JoinAnswered(room) # {} => ToldAdmin(room) # {}
    /\ \A c \in ToldAdmin(room) :
         /\ inFlight.add[c].adminToken # NoToken
         /\ inFlight.add[c].adminToken = getRoomAdminToken(World, room)
         /\ inFlight.add[c].callbackToken = getRoomAdminToken(World, room)
         /\ getRoomAdmin(World, room) = c
    /\ \A c \in JoinAnswered(room) \ ToldAdmin(room) :
         inFlight.add[c].callbackToken = NoToken

\* C30 when the metadata was written before another join read it: every
\* client whose join read an existing room is told it is not admin
C30_LaterReaderNotAdmin ==
  [][\A c \in Conn :
       ( /\ inFlight.add[c] # None
         /\ "roomMeta" \in DOMAIN inFlight.add[c]
         /\ inFlight.add[c].roomMeta.createdAt
         /\ inFlight.add'[c] # inFlight.add[c] ) =>
         /\ ~inFlight.add'[c].isAdmin
         /\ inFlight.add'[c].callbackToken = NoToken
         /\ rMeta' = rMeta]_vars


\* C31: at most one cleanup timer is running per room at any time: arming a
\* room that has a timer replaces it.
C31_OneTimerPerRoom ==
  \A room \in Rooms : LiveTimers(room) <= 1

\* C31 for the two functions alone: scheduleRoomCleanup over an armed timer
\* leaves one armed timer and changes nothing else, and cancelRoomCleanup
\* without a timer changes nothing
C31_ArmReplacesCancelIdle ==
  \A room \in RawRooms :
    /\ scheduleRoomCleanup(scheduleRoomCleanup(World, room), room)
         = scheduleRoomCleanup(World, room)
    /\ roomCleanupTimers[normRoom(room)] = "none" =>
         cancelRoomCleanup(World, room) = World


C33_HistoryKeepsLatest ==
  /\ [](\A room \in Rooms : Len(rMessages[room]) <= MAX_MESSAGES_PER_ROOM)
  /\ [][\A room \in Rooms :
          rMessages'[room] # rMessages[room] =>
            \/ rMessages'[room] = <<>>
            \/ /\ rMessages'[room] # <<>>
               /\ LET pushed == Append(rMessages[room],
                                       rMessages'[room][Len(rMessages'[room])])
                      n == Len(pushed)
                  IN  rMessages'[room] =
                        IF n > MAX_MESSAGES_PER_ROOM
                          THEN SubSeq(pushed, n - MAX_MESSAGES_PER_ROOM + 1, n)
                          ELSE pushed]_vars

\* C33 witness: a history is full, its newest message is from another user
\* than its oldest
C33_HistoryFull ==
  \E room \in Rooms :
    /\ Len(rMessages[room]) = MAX_MESSAGES_PER_ROOM
    /\ rMessages[room][1].user # rMessages[room][MAX_MESSAGES_PER_ROOM].user


\* C33 with the calls of the message service interleaved: when no call is under
\* way a history holds at most MAX_MESSAGES_PER_ROOM messages, and they stand
\* in the order in which they were saved.
C33_HistoryInSavedOrder ==
  MessagesIdle =>
    \A room \in Rooms :
      /\ Len(rMessages[room]) <= MAX_MESSAGES_PER_ROOM
      /\ \A i, k \in 1..Len(rMessages[room]) :
           i < k => HistoryIds(room)[i][2] < HistoryIds(room)[k][2]

\* C39: a message appended by saveMessage is never lost because of an
\* updateMessage or deleteMessage running at the same time: when the calls
\* are over, every message that was saved and not deleted by its owner (and
\* that no trimming can have dropped) is in a history.
C39_SavedMessageKept ==
  (MessagesIdle /\ Stamp - 1 <= MAX_MESSAGES_PER_ROOM) =>
    \A c \in Conn : \A messageId \in inFlight.msg[c].sent \ inFlight.msg[c].removed :
      \E room \in Rooms : \E i \in 1..Len(rMessages[room]) :
        HistoryIds(room)[i] = messageId


\* C40: for each connection and action type checkRateLimit allows at most
\* maxRequests calls between two resets of the counter; the call that finds the
\* counter at the limit is turned down and starts a block of blockDurationMs;
\* every call made while now < blockedUntil is turned down without a change of
\* the counter; disconnect discards the connection's limiter state.
C40_LimiterCountsAndBlocks ==
  /\ [](\A c \in Conn, actionType \in ActionTypes :
          LET limitData == inFlight.limits[c][actionType]
              config == RATE_LIMITS[actionType]
              checked == checkRateLimit(inFlight.limits[c], actionType, inFlight.now)
              after == checked.limits[actionType]
              resets == limitData = None \/ inFlight.now > limitData.resetTime
          IN  /\ sock[c] = "closed" => limitData = None
              /\ limitData # None => limitData.count <= config.maxRequests
              /\ (limitData # None /\ inFlight.now < limitData.blockedUntil) =>
                   ~checked.allowed /\ after = limitData
              /\ (limitData # None /\ inFlight.now >= limitData.blockedUntil
                    /\ ~resets /\ limitData.count = config.maxRequests) =>
                   /\ ~checked.allowed
                   /\ after.blockedUntil = inFlight.now + config.blockDurationMs
                   /\ after.count = limitData.count
              /\ checked.allowed =>
                   /\ after.count = (IF resets THEN 0 ELSE limitData.count) + 1
                   /\ after.count <= config.maxRequests
                   /\ after.blockedUntil <= inFlight.now
              /\ ~checked.allowed =>
                   /\ joinHandler(World, c, S_al, S_r1, NoToken, FALSE, nextToken,
                                  ~checked.allowed).reply.result = E_RATE
                   /\ sendMessageHandler(World, c, T_lt, ~checked.allowed).reply.result
                        = E_RATE)
  /\ [][\A c \in Conn :
          (sock[c] = "open" /\ sock'[c] = "closed") =>
            inFlight'.limits[c] = NoLimits]_vars

\* C40 witness: a socket made the join that found the counter at the limit: it
\* is blocked, and its counter stands at the limit
C40_JoinBlocked ==
  \E c \in Conn :
    /\ sock[c] = "open"
    /\ inFlight.limits[c]["join"] # None
    /\ inFlight.limits[c]["join"].count = JOIN_MAX_REQUESTS
    /\ inFlight.limits[c]["join"].blockedUntil > inFlight.now


\* C34: after a connection's disconnect event has been processed, its id has no
\* session and is in no room's member list, whatever joins and leaveRoom events
\* came before on that connection.
C34_DisconnectedHasNoSession ==
  \A c \in Conn :
    (sock[c] = "closed" /\ inFlight.leave[c] = {}) =>
      /\ getUser(World, c) = None
      /\ \A room \in Rooms : c \notin MemberIds(World, room)


\* C35: a pending entry never outlives its requester's connection: no queue
\* holds an entry of a closed socket, and approveJoin never makes a closed
\* socket's id a member of a room.
C35_PendingDiesWithConnection ==
  /\ \A room \in Rooms :
       \A p \in getPendingUsers(World, room) : sock[p.socketId] = "open"
  /\ \A a \in Conn, p \in Conn :
       (sock[a] = "open" /\ sock[p] = "closed") =>
         \A o \in approveJoinHandler(World, a, p, S_r1) : o.reply.result # "ok"


\* C36: kickUser, approveJoin and rejectJoin for a room succeed only when the
\* calling connection is at that moment a member of the room.
C36_ModeratorIsMember ==
  \A a \in Conn :
    (sock[a] = "open" /\ a \notin MemberIds(World, S_R1)) =>
      \A t \in Conn :
        /\ kickUserHandler(World, a, t, S_R1).reply.result # "ok"
        /\ \A o \in approveJoinHandler(World, a, t, S_R1) : o.reply.result # "ok"
        /\ \A o \in rejectJoinHandler(World, a, t, S_R1, DEFAULT_REJECT_REASON) :
             o.reply.result # "ok"


\* C37: in a room whose requireAdmin flag is true a join without the room's
\* admin token is never admitted directly, also while the admin is away or the
\* room is empty and not yet torn down.
C37_NoDirectEntryWithoutToken ==
  \A c \in {d \in Conn : sock[d] = "open"}, j \in KickRequests :
    LET room == sanitizeRoomId(j.room)
    IN  (isRoomAdminRequired(World, room)
           /\ j.adminToken # getRoomAdminToken(World, room)) =>
          joinHandler(World, c, j.username, j.room, j.adminToken, j.requireAdmin,
                      nextToken, FALSE).reply.result # "ok"


\* C38: whenever the membership of a room becomes zero, by leaveRoom, disconnect
\* or kickUser, a teardown timer is armed for the room; no room with zero
\* members and surviving metadata is without an armed teardown.
C38_EmptyRoomHasTeardownArmed ==
  /\ [](\A room \in Rooms :
          ( /\ MemberIds(World, room) = {}
            /\ (rMeta[room] # NoMeta \/ inMemoryRooms[room] # None) ) =>
            roomCleanupTimers[room] = "armed")
  /\ [][\A room \in Rooms :
          (MemberIds(World, room) # {} /\ MemberIds(World, room)' = {}) =>
            roomCleanupTimers'[room] = "armed"]_vars

=============================================================================
